---- MODULE Spec2Model ----
(***************************************************************************)
(* Survey response collection of the customer portal: the respondent form  *)
(* (SurveyResponse), its one-time-code e-mail gate (EmailVerificationFlow), *)
(* the page that hosts it (PublishedSurvey) and the two collaborators they  *)
(* talk to: the identity service (one-time codes, sessions) and the        *)
(* persistence service (the answers table).                                *)
(*                                                                         *)
(* Every async handler is split at its awaits: the synchronous prefix is   *)
(* one action (it dispatches a request that captures the handler's closure *)
(* values), and each return of a collaborator call is one action that runs *)
(* the continuation to the next await, together with the re-render and the *)
(* effects that the state change triggers.  Strings are sequences of       *)
(* one-character strings.                                                  *)
(***************************************************************************)
EXTENDS Integers, Sequences, FiniteSets, TLC

\* ------------------------------------------------------------------ bounds
\* requests to the identity service one form may have in flight
MaxInFlight == 2
\* times one form mounts the verification flow
MaxMounts == 2

\* seconds of resend cooldown in the specifications that interleave the
\* countdown with everything else (the code's 60 is ResendCooldown)
ShortCooldown == 2

\* --------------------------------------------------------------- constants
ResendCooldown == 60
OtpLength == 6

AllForms == {1, 2}

\* null of a string-valued field: the code only tests such fields for truthiness
NoEmail == <<>>
NoMessage == ""

\* ----------------------------------------------------------------- strings
Whitespace == {" ", "\t", "\n"}

Str(s) == s

RECURSIVE TrimLeft(_)
TrimLeft(s) ==
  IF s = <<>> THEN <<>>
  ELSE IF Head(s) \in Whitespace THEN TrimLeft(Tail(s)) ELSE s

RECURSIVE TrimRight(_)
TrimRight(s) ==
  IF s = <<>> THEN <<>>
  ELSE IF s[Len(s)] \in Whitespace THEN TrimRight(SubSeq(s, 1, Len(s) - 1)) ELSE s

\* String.prototype.trim
\* variant: the text is tested as typed
TrimNone(s) == s

Trim(s) == TrimRight(TrimLeft(s))

\* Array.prototype.join
RECURSIVE Join(_, _)
Join(list, sep) ==
  IF list = <<>> THEN <<>>
  ELSE IF Len(list) = 1 THEN list[1]
  ELSE list[1] \o sep \o Join(Tail(list), sep)

\* Array.prototype.filter(item => item # x)
RECURSIVE Without(_, _)
Without(list, x) ==
  IF list = <<>> THEN <<>>
  ELSE IF Head(list) = x THEN Without(Tail(list), x)
  ELSE <<Head(list)>> \o Without(Tail(list), x)

Includes(list, x) == \E i \in DOMAIN list : list[i] = x

RemoveAt(s, i) == SubSeq(s, 1, i - 1) \o SubSeq(s, i + 1, Len(s))

\* /^[^\s@]+@[^\s@]+\.[^\s@]+$/ : local@domain.tld
PlainChar(c) == c \notin Whitespace /\ c # "@"

isValidEmail(s) ==
  \E i \in 1..Len(s) : \E j \in 1..Len(s) :
    /\ s[i] = "@"
    /\ s[j] = "."
    /\ 1 < i
    /\ i + 1 < j
    /\ j < Len(s)
    /\ \A k \in 1..Len(s) : k # i => PlainChar(s[k])

\* e.target.value.replace(/[^0-9]/g, '').slice(0, 6)
Digits == {"0", "1", "2", "3", "4", "5", "6", "7", "8", "9"}

RECURSIVE OnlyDigits(_)
OnlyDigits(s) ==
  IF s = <<>> THEN <<>>
  ELSE IF Head(s) \in Digits THEN <<Head(s)>> \o OnlyDigits(Tail(s))
  ELSE OnlyDigits(Tail(s))

CodeInputFilter(raw) ==
  LET d == OnlyDigits(raw) IN SubSeq(d, 1, IF Len(d) < OtpLength THEN Len(d) ELSE OtpLength)

\* ------------------------------------------------------------------ survey
SurveyId == "S"

\* the survey prop of SurveyResponse: its questions in display order
Questions ==
  << [id |-> "q1", question_type |-> "text",     options |-> <<>>,               required |-> TRUE],
     [id |-> "q2", question_type |-> "checkbox", options |-> << <<"A">>, <<"B">> >>, required |-> TRUE],
     [id |-> "q3", question_type |-> "radio",    options |-> << <<"A">>, <<"B">> >>, required |-> FALSE] >>

\* the keys an answer map can have
QIds == {"q1", "q2", "q3", "q4", "q5", "q6"}

Ids(questions) == {questions[i].id : i \in DOMAIN questions}

Find(questions, qid) == CHOOSE q \in {questions[i] : i \in DOMAIN questions} : q.id = qid

\* answer_value is a string, a number or an array of option strings
StrVal(s) == [kind |-> "string", v |-> s]
ArrVal(l) == [kind |-> "array", v |-> l]

\* answers[q] while the answer map has no key q
NoAnswer == [present |-> FALSE, answer_text |-> <<>>, answer_value |-> StrVal(<<>>)]

Answer(text, value) == [present |-> TRUE, answer_text |-> text, answer_value |-> value]

\* --------------------------------------------------------- inputs (typed)
E1 == <<"a", "@", "x", ".", "y">>
E2 == <<"b", "@", "x", ".", "y">>
BadEmail == <<"a", "@", "x">>
Emails == {E1, E2}

Code1 == <<"1", "2", "3", "4", "5", "6">>
Code2 == <<"6", "5", "4", "3", "2", "1">>
NoCode == <<>>
\* the codes the identity service hands out
Codes == {Code1}

\* ------------------------------------------------------------------- state
VARIABLES
  form,          \* SurveyResponse useState fields, per form instance
  hasSubmitted,  \* PublishedSurvey.hasSubmitted, per page
  flow,          \* EmailVerificationFlow useState fields of the mounted instance
  gen,           \* which mount of EmailVerificationFlow is the current one
  sends,         \* signInWithOtp calls in flight, with their closure values
  verifies,      \* verifyOtp / signOut calls of handleVerifyOTP in flight
  checks,        \* checkSurveyResponseByEmail calls in flight
  inserts,       \* submitSurveyResponse call in flight (the formatted answers)
  session,       \* the auth session held by the page's supabase client
  issued,        \* identity service: the code currently valid for an address
  accepted,      \* identity service: addresses whose code it accepted, per client
  db,            \* persistence service: the batches inserted into answers
  checkLog,      \* per form and address: how the duplicate check made since
                 \* the address was last verified ended
  leftAlready,   \* per form: "Use a different email address" has been clicked
  survey,        \* survey.questions, the prop of SurveyResponse
  cooldown,      \* the argument of setCountdown in startResendCooldown
  loaded,        \* PublishedSurvey: fetchSurvey is "loading", or how it ended
  poll,          \* per polling view: its state, timer and refreshSession calls
  confirmed,     \* identity service: the account's email_confirmed_at is set
  editor,        \* SurveyForm: its useState
  tables,        \* persistence: the surveys, questions, responses, answers rows
  op,            \* the multi-call operation in progress, and how the last ended
  stats,         \* SurveyStats: the loaded survey and answer rows, and what it shows
  inline         \* EmailVerification (the one-line variant of the flow): its useState

vars == <<form, hasSubmitted, flow, gen, sends, verifies, checks, inserts,
          session, issued, accepted, db, checkLog, leftAlready, survey, cooldown,
          loaded, poll, confirmed, editor, tables, op, stats, inline>>

\* the state of the account pages
polling == <<poll, confirmed>>

\* the state of the survey owner's pages
owner == <<editor, tables, op>>

\* the state of the other pages
pages == <<polling, owner, stats, inline>>

\* what no handler of the respondent's page assigns
props == <<survey, cooldown, loaded, pages>>

\* the state of the respondent's page and the identity service
visitor == <<form, hasSubmitted, flow, gen, sends, verifies, checks, inserts,
             session, issued, accepted, checkLog, leftAlready, survey, cooldown, loaded>>

\* the state of the respondent's page and its collaborators
respondent == <<visitor, db>>

\* SurveyForm's useState defaults; editing says the survey prop is set, clock
\* is the Date.now() of the next addQuestion
EditorInit ==
  [editing   |-> FALSE,
   title     |-> <<>>,
   isPublished |-> FALSE,
   questions |-> <<>>,
   isLoading |-> FALSE,
   error     |-> NoMessage,
   clock     |-> 1]

\* the owner's survey "S" without questions, nothing else persisted; cascade
\* says whether answers.question_id is declared ON DELETE CASCADE
TablesInit ==
  [surveys   |-> {[id |-> "S", title |-> <<"o">>, is_published |-> TRUE]},
   cascade   |-> FALSE,
   questions |-> <<>>,
   responses |-> 0,
   answers   |-> 0]

\* the argument of an operation that takes none
NoPayload == [title |-> <<>>, is_published |-> FALSE, questions |-> <<>>]

\* no operation in progress; before is what was persisted when the last
\* operation began
OpInit ==
  [kind    |-> "none",
   pc      |-> "none",
   payload |-> NoPayload,
   before  |-> TablesInit,
   outcome |-> "none"]

\* SurveyStats at its mount: fetchData waits for the first of its three
\* calls; responses is what fetchSurveyResponses returned and counted is the
\* rows getSurveyStatistics counted
StatsInit ==
  [pc |-> "survey", questions |-> <<>>, responses |-> <<>>, counted |-> <<>>,
   shown |-> "nothing", subject |-> 0,
   summary |-> <<>>, chart |-> <<>>,
   numbers |-> [displayed |-> FALSE, average |-> 0,
               min |-> [kind |-> "finite", n |-> 0], max |-> [kind |-> "finite", n |-> 0]],
   csv |-> <<>>]

\* EmailVerification's useState, its calls in flight, the code the identity
\* service holds for its address and the addresses handed to
\* onVerificationSuccess
InlineInit ==
  [email            |-> <<>>,
   verificationCode |-> <<>>,
   showCodeInput    |-> FALSE,
   isLoading        |-> FALSE,
   error            |-> NoMessage,
   countdown        |-> 0,
   sends            |-> <<>>,
   verifies         |-> <<>>,
   issued           |-> [email |-> NoEmail, code |-> NoCode],
   verified         |-> {}]

\* the views that poll for the e-mail confirmation
PollViews == {"VerifyEmail", "LandingPage"}

\* a polling view that is not on screen; started counts its refreshSession
\* calls, observed says that the mounted instance has seen the confirmation
PollInit ==
  [mounted                |-> FALSE,
   instance               |-> 0,
   active                 |-> FALSE,
   isCheckingVerification |-> FALSE,
   interval               |-> FALSE,
   inFlight               |-> <<>>,
   started                |-> 0,
   observed               |-> FALSE]

FormInit ==
  [answers                |-> [q \in QIds |-> NoAnswer],
   isSubmitting           |-> FALSE,
   validationErrors       |-> [q \in QIds |-> NoMessage],
   verifiedEmail          |-> NoEmail,
   alreadySubmitted       |-> FALSE,
   checkingPrevSubmission |-> FALSE,
   showEmailVerification  |-> FALSE,
   toast                  |-> NoMessage]

FlowInit ==
  [step             |-> "email",
   email            |-> <<>>,
   verificationCode |-> <<>>,
   isLoading        |-> FALSE,
   error            |-> NoMessage,
   resendDisabled   |-> FALSE,
   countdown        |-> 0]

\* one answer row of a batch already in the table: only the columns read
Row(qid, e, text, value) ==
  [question_id |-> qid, email |-> e, survey_id |-> SurveyId,
   answer_text |-> text, answer_value |-> value]

\* a respondent who answered with E1 before this page was opened
EarlierBatch == { Row("q1", E1, <<"a">>, StrVal(<<"a">>)),
                  Row("q2", E1, <<"A">>, ArrVal(<< <<"A">> >>)) }

\* everything but the forms' state and the table
InitPages ==
  /\ hasSubmitted = [f \in AllForms |-> FALSE]
  /\ flow = [f \in AllForms |-> FlowInit]
  /\ gen = [f \in AllForms |-> 0]
  /\ sends = [f \in AllForms |-> <<>>]
  /\ verifies = [f \in AllForms |-> <<>>]
  /\ checks = [f \in AllForms |-> <<>>]
  /\ inserts = [f \in AllForms |-> {}]
  /\ session = [f \in AllForms |-> NoEmail]
  /\ issued = [e \in Emails |-> NoCode]
  /\ accepted = [f \in AllForms |-> {}]
  /\ checkLog = [f \in AllForms |-> [e \in Emails |-> "none"]]
  /\ leftAlready = [f \in AllForms |-> FALSE]
  /\ loaded = [f \in AllForms |-> "ready"]
  /\ poll = [v \in PollViews |-> PollInit]
  /\ confirmed = FALSE
  /\ editor = EditorInit
  /\ tables = TablesInit
  /\ op = OpInit
  /\ inline = InlineInit

InitRest ==
  /\ InitPages
  /\ stats = StatsInit

InitCommon ==
  /\ form = [f \in AllForms |-> FormInit]
  /\ InitRest

Init ==
  /\ InitCommon
  /\ db = << EarlierBatch >>
  /\ survey = Questions
  /\ cooldown = ShortCooldown

\* --------------------------------------------------------------- rendering
\* the return statements of PublishedSurvey and SurveyResponse, in order
ViewOf(fr, submitted) ==
  IF submitted THEN "thanks"
  ELSE IF fr.alreadySubmitted THEN "already"
  ELSE IF fr.checkingPrevSubmission THEN "checking"
  ELSE IF fr.showEmailVerification THEN "verify"
  ELSE "form"

\* PublishedSurvey shows its spinner or its error card until fetchSurvey has
\* set the survey
View(f) == IF loaded[f] # "ready" THEN loaded[f] ELSE ViewOf(form[f], hasSubmitted[f])

\* EmailVerificationFlow is mounted exactly while SurveyResponse renders it;
\* a mount starts from the useState defaults, an unmount drops the state and
\* clears the countdown timer. newFlow is the flow state the handler leaves
\* if the instance stays mounted.
Render(f, newForm, newSubmitted, newFlow) ==
  /\ form' = [form EXCEPT ![f] = newForm]
  /\ hasSubmitted' = [hasSubmitted EXCEPT ![f] = newSubmitted]
  /\ IF ViewOf(newForm, newSubmitted) = "verify"
       THEN IF View(f) = "verify"
              THEN /\ flow' = [flow EXCEPT ![f] = newFlow]
                   /\ gen' = gen
              ELSE /\ flow' = [flow EXCEPT ![f] = FlowInit]
                   /\ gen' = [gen EXCEPT ![f] = @ + 1]
       ELSE /\ flow' = [flow EXCEPT ![f] = FlowInit]
            /\ gen' = gen

\* a state update of the flow instance that issued request r: lost when that
\* instance is no longer the mounted one
FlowAfter(f, r, newFlow) ==
  IF View(f) = "verify" /\ r.gen = gen[f] THEN newFlow ELSE flow[f]

InFlight(f) == Len(sends[f]) + Len(verifies[f])

\* ---------------------------------------------------- EmailVerificationFlow
\* startResendCooldown
startResendCooldown(fl) ==
  [fl EXCEPT !.resendDisabled = TRUE, !.countdown = cooldown]

\* variant: the effect has no branch for countdown = 0
TickOnly(f) ==
  /\ View(f) = "verify"
  /\ flow[f].countdown > 0
  /\ flow' = [flow EXCEPT ![f].countdown = @ - 1]
  /\ UNCHANGED <<form, hasSubmitted, gen, sends, verifies, checks, inserts,
                 session, issued, accepted, db, checkLog, leftAlready, props>>

\* the countdown effect: a one-second timeout while countdown > 0, and on the
\* render with countdown = 0 the resend button is enabled again
Tick(f) ==
  /\ View(f) = "verify"
  /\ flow[f].countdown > 0
  /\ LET c == flow[f].countdown - 1 IN
       flow' = [flow EXCEPT ![f] = [@ EXCEPT !.countdown = c,
                                             !.resendDisabled = IF c = 0 THEN FALSE ELSE @]]
  /\ UNCHANGED <<form, hasSubmitted, gen, sends, verifies, checks, inserts,
                 session, issued, accepted, db, checkLog, leftAlready, props>>

\* the e-mail input's onChange
setEmail(f, e) ==
  /\ View(f) = "verify"
  /\ flow[f].step = "email"
  /\ ~flow[f].isLoading
  /\ e # flow[f].email
  /\ flow' = [flow EXCEPT ![f].email = e]
  /\ UNCHANGED <<form, hasSubmitted, gen, sends, verifies, checks, inserts,
                 session, issued, accepted, db, checkLog, leftAlready, props>>

\* the code input's onChange
setVerificationCode(f, raw) ==
  /\ View(f) = "verify"
  /\ flow[f].step = "code"
  /\ ~flow[f].isLoading
  /\ CodeInputFilter(raw) # flow[f].verificationCode
  /\ flow' = [flow EXCEPT ![f].verificationCode = CodeInputFilter(raw)]
  /\ UNCHANGED <<form, hasSubmitted, gen, sends, verifies, checks, inserts,
                 session, issued, accepted, db, checkLog, leftAlready, props>>

\* variant: the address is only tested for being empty
handleSendOTPUnvalidated(f) ==
  /\ IF flow[f].email = <<>>
       THEN /\ flow' = [flow EXCEPT ![f].error = "Please enter your email address"]
            /\ UNCHANGED sends
       ELSE /\ InFlight(f) < MaxInFlight
            /\ flow' = [flow EXCEPT ![f] = [@ EXCEPT !.error = NoMessage, !.isLoading = TRUE]]
            /\ sends' = [sends EXCEPT ![f] = Append(@, [gen |-> gen[f], email |-> flow[f].email])]
  /\ UNCHANGED <<form, hasSubmitted, gen, verifies, checks, inserts,
                 session, issued, accepted, db, checkLog, leftAlready, props>>

\* handleSendOTP up to its await
handleSendOTP(f) ==
  /\ IF flow[f].email = <<>>
       THEN /\ flow' = [flow EXCEPT ![f].error = "Please enter your email address"]
            /\ UNCHANGED sends
       ELSE IF ~isValidEmail(flow[f].email)
         THEN /\ flow' = [flow EXCEPT ![f].error = "Please enter a valid email address"]
              /\ UNCHANGED sends
         ELSE /\ InFlight(f) < MaxInFlight
              /\ flow' = [flow EXCEPT ![f] = [@ EXCEPT !.error = NoMessage, !.isLoading = TRUE]]
              /\ sends' = [sends EXCEPT ![f] = Append(@, [gen |-> gen[f], email |-> flow[f].email])]
  /\ UNCHANGED <<form, hasSubmitted, gen, verifies, checks, inserts,
                 session, issued, accepted, db, checkLog, leftAlready, props>>

\* the Continue button of the e-mail step
ContinueEnabled(f) == flow[f].step = "email" /\ ~flow[f].isLoading

Continue(f) ==
  /\ View(f) = "verify"
  /\ ContinueEnabled(f)
  /\ handleSendOTP(f)

\* variant: the button is never disabled
ResendEnabledAlways(f) == flow[f].step = "code"

\* the Resend Code button of the code step
ResendEnabled(f) == flow[f].step = "code" /\ ~flow[f].resendDisabled

Resend(f) ==
  /\ View(f) = "verify"
  /\ ResendEnabled(f)
  /\ handleSendOTP(f)

\* the Back button of the code step
Back(f) ==
  /\ View(f) = "verify"
  /\ flow[f].step = "code"
  /\ flow' = [flow EXCEPT ![f].step = "email"]
  /\ UNCHANGED <<form, hasSubmitted, gen, sends, verifies, checks, inserts,
                 session, issued, accepted, db, checkLog, leftAlready, props>>

\* signInWithOtp returned without error: the service has issued a code
SendSucceeded(f, i, c) ==
  /\ i \in DOMAIN sends[f]
  /\ LET r == sends[f][i] IN
       /\ issued' = [issued EXCEPT ![r.email] = c]
       /\ flow' = [flow EXCEPT ![f] =
            FlowAfter(f, r, [startResendCooldown(flow[f]) EXCEPT !.step = "code",
                                                                   !.isLoading = FALSE])]
  /\ sends' = [sends EXCEPT ![f] = RemoveAt(@, i)]
  /\ UNCHANGED <<form, hasSubmitted, gen, verifies, checks, inserts,
                 session, accepted, db, checkLog, leftAlready, props>>

\* signInWithOtp returned an error (unknown user, rate limit, network)
SendFailed(f, i) ==
  /\ i \in DOMAIN sends[f]
  /\ LET r == sends[f][i] IN
       flow' = [flow EXCEPT ![f] =
         FlowAfter(f, r, [flow[f] EXCEPT !.error = "send failed", !.isLoading = FALSE])]
  /\ sends' = [sends EXCEPT ![f] = RemoveAt(@, i)]
  /\ UNCHANGED <<form, hasSubmitted, gen, verifies, checks, inserts,
                 session, issued, accepted, db, checkLog, leftAlready, props>>

\* handleVerifyOTP up to its first await
handleVerifyOTP(f) ==
  /\ IF flow[f].verificationCode = <<>>
       THEN /\ flow' = [flow EXCEPT ![f].error = "Please enter the verification code"]
            /\ UNCHANGED verifies
       ELSE IF Len(flow[f].verificationCode) # OtpLength
         THEN /\ flow' = [flow EXCEPT ![f].error =
                            "Please enter all 6 digits of the verification code"]
              /\ UNCHANGED verifies
         ELSE /\ InFlight(f) < MaxInFlight
              /\ flow' = [flow EXCEPT ![f] = [@ EXCEPT !.error = NoMessage, !.isLoading = TRUE]]
              /\ verifies' = [verifies EXCEPT ![f] =
                   Append(@, [gen |-> gen[f], email |-> flow[f].email,
                              token |-> flow[f].verificationCode, phase |-> "verifyOtp"])]
  /\ UNCHANGED <<form, hasSubmitted, gen, sends, checks, inserts,
                 session, issued, accepted, db, checkLog, leftAlready, props>>

\* the Verify button of the code step
VerifyEnabled(f) == flow[f].step = "code" /\ ~flow[f].isLoading

Verify(f) ==
  /\ View(f) = "verify"
  /\ VerifyEnabled(f)
  /\ handleVerifyOTP(f)

\* identity service: the token is the code currently valid for the address
OtpMatches(r) ==
  /\ r.email \in DOMAIN issued
  /\ issued[r.email] # NoCode
  /\ issued[r.email] = r.token

\* verifyOtp returned a user and a session; handleVerifyOTP goes on to signOut
VerifyAccepted(f, i) ==
  /\ i \in DOMAIN verifies[f]
  /\ LET r == verifies[f][i] IN
       /\ r.phase = "verifyOtp"
       /\ OtpMatches(r)
       /\ issued' = [issued EXCEPT ![r.email] = NoCode]
       /\ accepted' = [accepted EXCEPT ![f] = @ \cup {r.email}]
       /\ session' = [session EXCEPT ![f] = r.email]
       /\ verifies' = [verifies EXCEPT ![f][i].phase = "signOut"]
  /\ UNCHANGED <<form, hasSubmitted, flow, gen, sends, checks, inserts, db, checkLog, leftAlready, props>>

\* variant: no finally block
verifyCatchOnly(f, r, message) ==
  FlowAfter(f, r, [flow[f] EXCEPT !.error = message])

\* the catch and finally blocks of handleVerifyOTP
verifyCatch(f, r, message) ==
  FlowAfter(f, r, [flow[f] EXCEPT !.error = message, !.isLoading = FALSE])

\* variant: the error of verifyOtp is not thrown, so the handler goes on to
\* onVerificationSuccess (there is no user to sign out)
VerifyRejectedUnchecked(f, i) ==
  /\ i \in DOMAIN verifies[f]
  /\ LET r == verifies[f][i]
         changed == r.email # form[f].verifiedEmail
     IN
       /\ r.phase = "verifyOtp"
       /\ ~OtpMatches(r)
       /\ r.email \in Emails
       /\ IF hasSubmitted[f]
            THEN UNCHANGED <<form, hasSubmitted, flow, gen, checks, checkLog>>
            ELSE /\ Render(f, [form[f] EXCEPT !.verifiedEmail = r.email,
                                              !.showEmailVerification = FALSE,
                                              !.checkingPrevSubmission =
                                                 IF changed THEN TRUE ELSE @],
                           FALSE, FlowAfter(f, r, [flow[f] EXCEPT !.isLoading = FALSE]))
                 /\ checks' = [checks EXCEPT ![f] = IF changed THEN Append(@, r.email) ELSE @]
                 /\ checkLog' = [checkLog EXCEPT ![f][r.email] = IF changed THEN "none" ELSE @]
  /\ verifies' = [verifies EXCEPT ![f] = RemoveAt(@, i)]
  /\ UNCHANGED <<sends, inserts, session, issued, accepted, db, leftAlready, props>>

\* verifyOtp returned an error: the code is wrong or expired
VerifyRejected(f, i) ==
  /\ i \in DOMAIN verifies[f]
  /\ LET r == verifies[f][i] IN
       /\ r.phase = "verifyOtp"
       /\ ~OtpMatches(r)
       /\ flow' = [flow EXCEPT ![f] = verifyCatch(f, r, "Token has expired or is invalid")]
  /\ verifies' = [verifies EXCEPT ![f] = RemoveAt(@, i)]
  /\ UNCHANGED <<form, hasSubmitted, gen, sends, checks, inserts,
                 session, issued, accepted, db, checkLog, leftAlready, props>>

\* identity service: a code expires
Expire(e) ==
  /\ issued[e] # NoCode
  /\ issued' = [issued EXCEPT ![e] = NoCode]
  /\ UNCHANGED <<form, hasSubmitted, flow, gen, sends, verifies, checks, inserts,
                 session, accepted, db, checkLog, leftAlready, props>>

\* verifyOtp failed although the code was right (the call itself failed)
VerifyFailed(f, i) ==
  /\ i \in DOMAIN verifies[f]
  /\ LET r == verifies[f][i] IN
       /\ r.phase = "verifyOtp"
       /\ OtpMatches(r)
       /\ flow' = [flow EXCEPT ![f] = verifyCatch(f, r, "verify failed")]
  /\ verifies' = [verifies EXCEPT ![f] = RemoveAt(@, i)]
  /\ UNCHANGED <<form, hasSubmitted, gen, sends, checks, inserts,
                 session, issued, accepted, db, checkLog, leftAlready, props>>

\* ----------------------------------------------------------- SurveyResponse
\* handleVerificationSuccess, then the checkPreviousSubmission effect, which
\* runs when the render sees another verifiedEmail and it is not null
handleVerificationSuccess(fr, e) ==
  [fr EXCEPT !.verifiedEmail = e,
             !.showEmailVerification = FALSE,
             !.checkingPrevSubmission = IF e # fr.verifiedEmail THEN TRUE ELSE @]

\* supabase.auth.signOut returned (its result is not looked at), then
\* onVerificationSuccess(email) and the finally block of handleVerifyOTP
SignOutReturned(f, i, ok) ==
  /\ i \in DOMAIN verifies[f]
  /\ LET r == verifies[f][i]
         changed == r.email # form[f].verifiedEmail
     IN
       /\ r.phase = "signOut"
       /\ session' = [session EXCEPT ![f] = IF ok THEN NoEmail ELSE @]
       /\ IF hasSubmitted[f]
            THEN UNCHANGED <<form, hasSubmitted, flow, gen, checks, checkLog>>
            ELSE /\ Render(f, handleVerificationSuccess(form[f], r.email), FALSE,
                           FlowAfter(f, r, [flow[f] EXCEPT !.isLoading = FALSE]))
                 /\ checks' = [checks EXCEPT ![f] = IF changed THEN Append(@, r.email) ELSE @]
                 /\ checkLog' = [checkLog EXCEPT ![f][r.email] = IF changed THEN "none" ELSE @]
  /\ verifies' = [verifies EXCEPT ![f] = RemoveAt(@, i)]
  /\ UNCHANGED <<sends, inserts, issued, accepted, db, leftAlready, props>>

\* handleCancelVerification, from the Cancel button of the e-mail step
Cancel(f) ==
  /\ View(f) = "verify"
  /\ flow[f].step = "email"
  /\ ~flow[f].isLoading
  /\ Render(f, [form[f] EXCEPT !.showEmailVerification = FALSE], FALSE, flow[f])
  /\ UNCHANGED <<sends, verifies, checks, inserts, session, issued, accepted, db,
                 checkLog, leftAlready, props>>

\* fetchPublishedSurvey: the survey row if it is published, with its question
\* rows; no such row is an error of .single()
fetchPublishedSurvey(t, surveyId) ==
  IF \E row \in t.surveys : row.id = surveyId /\ row.is_published
    THEN [found |-> TRUE,
          questions |-> LET rows == SelectSeq(t.questions, LAMBDA row : row.survey_id = surveyId)
                        IN [i \in DOMAIN rows |->
                              [id |-> rows[i].id, question_type |-> rows[i].question_type,
                               options |-> rows[i].options, required |-> rows[i].required]]]
    ELSE [found |-> FALSE, questions |-> <<>>]

\* fetchSurvey of PublishedSurvey returned: the page shows the survey, or
\* "Could not load survey"
PublishedSurveyFetched(f, ok) ==
  /\ loaded[f] = "loading"
  /\ LET data == fetchPublishedSurvey(tables, SurveyId) IN
       IF ok /\ data.found
         THEN /\ survey' = data.questions
              /\ loaded' = [loaded EXCEPT ![f] = "ready"]
         ELSE /\ survey' = survey
              /\ loaded' = [loaded EXCEPT ![f] = "failed"]
  /\ UNCHANGED <<form, hasSubmitted, flow, gen, sends, verifies, checks, inserts, session,
                 issued, accepted, db, checkLog, leftAlready, cooldown, pages>>

\* checkSurveyResponseByEmail: is there a row with this survey and address
checkSurveyResponseByEmail(table, surveyId, e) ==
  \E k \in DOMAIN table : \E row \in table[k] : row.survey_id = surveyId /\ row.email = e

\* the check returned its answer: the rest of checkPreviousSubmission
CheckReturned(f, i) ==
  /\ i \in DOMAIN checks[f]
  /\ LET e == checks[f][i]
         hasSubmittedBefore == checkSurveyResponseByEmail(db, SurveyId, e)
     IN
       /\ checkLog' = [checkLog EXCEPT ![f][e] = IF hasSubmittedBefore THEN "dup" ELSE "clean"]
       /\ IF hasSubmitted[f]
            THEN UNCHANGED <<form, hasSubmitted, flow, gen>>
            ELSE Render(f, [form[f] EXCEPT !.alreadySubmitted = hasSubmittedBefore,
                                           !.checkingPrevSubmission = FALSE],
                        FALSE, flow[f])
  /\ checks' = [checks EXCEPT ![f] = RemoveAt(@, i)]
  /\ UNCHANGED <<sends, verifies, inserts, session, issued, accepted, db, leftAlready, props>>

\* the check threw: the catch logs, the finally clears the spinner
CheckFailed(f, i) ==
  /\ i \in DOMAIN checks[f]
  /\ checkLog' = [checkLog EXCEPT ![f][checks[f][i]] = "error"]
  /\ IF hasSubmitted[f]
       THEN UNCHANGED <<form, hasSubmitted, flow, gen>>
       ELSE Render(f, [form[f] EXCEPT !.checkingPrevSubmission = FALSE], FALSE, flow[f])
  /\ checks' = [checks EXCEPT ![f] = RemoveAt(@, i)]
  /\ UNCHANGED <<sends, verifies, inserts, session, issued, accepted, db, leftAlready, props>>

\* the button of the already-responded view
UseDifferentEmail(f) ==
  /\ View(f) = "already"
  /\ Render(f, [form[f] EXCEPT !.verifiedEmail = NoEmail, !.alreadySubmitted = FALSE],
            FALSE, flow[f])
  /\ leftAlready' = [leftAlready EXCEPT ![f] = TRUE]
  /\ UNCHANGED <<sends, verifies, checks, inserts, session, issued, accepted, db,
                 checkLog, props>>

\* the first lines of the three answer handlers: an unverified respondent
\* is sent to the verification flow and the input is dropped
NeedsVerification(fr) == fr.verifiedEmail = NoEmail /\ ~fr.showEmailVerification

\* the tail of the three answer handlers: store the answer, clear its error
StoreAnswer(fr, qid, a) ==
  [fr EXCEPT !.answers[qid] = a, !.validationErrors[qid] = NoMessage]

AnswerHandler(f, qid, a) ==
  /\ View(f) = "form"
  /\ IF NeedsVerification(form[f])
       THEN /\ gen[f] < MaxMounts
            /\ Render(f, [form[f] EXCEPT !.showEmailVerification = TRUE], FALSE, flow[f])
       ELSE IF form[f].alreadySubmitted
         THEN UNCHANGED <<form, hasSubmitted, flow, gen>>
         ELSE Render(f, StoreAnswer(form[f], qid, a), FALSE, flow[f])
  /\ UNCHANGED <<sends, verifies, checks, inserts, session, issued, accepted, db,
                 checkLog, leftAlready, props>>

\* handleTextAnswer (text, textarea, date questions; number stores Number(value))
handleTextAnswer(f, qid, value) ==
  /\ qid \in Ids(survey)
  /\ Find(survey, qid).question_type = "text"
  /\ ~(form[f].answers[qid].present /\ form[f].answers[qid].answer_text = value)
  /\ AnswerHandler(f, qid, Answer(value, StrVal(value)))

\* handleRadioAnswer
handleRadioAnswer(f, qid, option) ==
  /\ qid \in Ids(survey)
  /\ Find(survey, qid).question_type = "radio"
  /\ Includes(Find(survey, qid).options, option)
  /\ form[f].answers[qid].answer_text # option
  /\ AnswerHandler(f, qid, Answer(option, StrVal(option)))

\* isCheckboxSelected
isCheckboxSelected(fr, qid, option) ==
  /\ fr.answers[qid].present
  /\ fr.answers[qid].answer_value.kind = "array"
  /\ Includes(fr.answers[qid].answer_value.v, option)

\* variant: the text is joined from the selection before the change
CheckboxUpdateStaleText(prev, option, checked) ==
  LET currentAnswer == IF prev.present THEN prev ELSE Answer(<<>>, ArrVal(<<>>))
      current == IF currentAnswer.answer_value.kind = "array"
                   THEN currentAnswer.answer_value.v ELSE <<>>
      selectedOptions == IF checked THEN Append(current, option) ELSE Without(current, option)
  IN Answer(Join(current, <<",", " ">>), ArrVal(selectedOptions))

\* the setAnswers updater of handleCheckboxAnswer
CheckboxUpdate(prev, option, checked) ==
  LET currentAnswer == IF prev.present THEN prev ELSE Answer(<<>>, ArrVal(<<>>))
      current == IF currentAnswer.answer_value.kind = "array"
                   THEN currentAnswer.answer_value.v ELSE <<>>
      selectedOptions == IF checked THEN Append(current, option) ELSE Without(current, option)
  IN Answer(Join(selectedOptions, <<",", " ">>), ArrVal(selectedOptions))

\* handleCheckboxAnswer: the box reports the opposite of what it shows
handleCheckboxAnswer(f, qid, option) ==
  /\ qid \in Ids(survey)
  /\ Find(survey, qid).question_type = "checkbox"
  /\ Includes(Find(survey, qid).options, option)
  /\ AnswerHandler(f, qid, CheckboxUpdate(form[f].answers[qid], option,
                                          ~isCheckboxSelected(form[f], qid, option)))

\* variant: a question without an answer is passed over
validateAnswersPresent(questions, answers) ==
  [qid \in QIds |->
     LET question == Find(questions, qid)
         answer == answers[qid]
     IN IF qid \in Ids(questions) /\ question.required /\ answer.present
          THEN IF Trim(answer.answer_text) = <<>>
                 THEN "This question requires an answer"
                 ELSE IF question.question_type = "checkbox"
                         /\ (answer.answer_value.kind # "array" \/ answer.answer_value.v = <<>>)
                   THEN "Please select at least one option"
                   ELSE NoMessage
          ELSE NoMessage]

\* validateAnswers: the errors object, NoMessage where it has no key
validateAnswers(questions, answers) ==
  [qid \in QIds |->
     LET question == Find(questions, qid)
         answer == answers[qid]
     IN IF qid \in Ids(questions) /\ question.required
          THEN IF ~answer.present \/ Trim(answer.answer_text) = <<>>
                 THEN "This question requires an answer"
                 ELSE IF question.question_type = "checkbox"
                         /\ (answer.answer_value.kind # "array" \/ answer.answer_value.v = <<>>)
                   THEN "Please select at least one option"
                   ELSE NoMessage
          ELSE NoMessage]

\* Object.keys(errors).length === 0
NoErrors(errors) == \A qid \in DOMAIN errors : errors[qid] = NoMessage

\* formattedAnswers of handleSubmit: one row per key of the answer map
formattedAnswers(fr) ==
  { Row(qid, fr.verifiedEmail, fr.answers[qid].answer_text, fr.answers[qid].answer_value) :
      qid \in {q \in DOMAIN fr.answers : fr.answers[q].present} }

\* the Submit Response button
SubmitEnabled(fr) == ~fr.isSubmitting /\ fr.verifiedEmail # NoEmail

\* handleSubmit up to the await of the insert; submitSurveyResponse throws
\* before any call when there is no row to insert
handleSubmit(f) ==
  /\ View(f) = "form"
  /\ Len(survey) > 0
  /\ SubmitEnabled(form[f])
  /\ LET fr == form[f]
         errors == validateAnswers(survey, fr.answers)
         checked == [fr EXCEPT !.validationErrors = errors]
     IN IF fr.verifiedEmail = NoEmail \/ fr.alreadySubmitted
          THEN UNCHANGED <<form, hasSubmitted, flow, gen, inserts>>
          ELSE IF ~NoErrors(errors) \/ formattedAnswers(fr) = {}
            THEN /\ Render(f, checked, FALSE, flow[f])
                 /\ UNCHANGED inserts
            ELSE /\ Render(f, [checked EXCEPT !.isSubmitting = TRUE], FALSE, flow[f])
                 /\ inserts' = [inserts EXCEPT ![f] = formattedAnswers(fr)]
  /\ UNCHANGED <<sends, verifies, checks, session, issued, accepted, db, checkLog, leftAlready, props>>

\* variant: a unique index on (survey, email) turns the second set away
submitSurveyResponseUnique(table, rows) ==
  IF \E k \in DOMAIN table : \E old \in table[k] : \E row \in rows :
       old.survey_id = row.survey_id /\ old.email = row.email
    THEN table
    ELSE Append(table, rows)

\* submitSurveyResponse: the rows are inserted as they are
submitSurveyResponse(table, rows) == Append(table, rows)

\* variant: onSubmitSuccess is not called
InsertSucceededNoCallback(f) ==
  /\ inserts[f] # {}
  /\ db' = submitSurveyResponse(db, inserts[f])
  /\ inserts' = [inserts EXCEPT ![f] = {}]
  /\ Render(f, [form[f] EXCEPT !.isSubmitting = FALSE], hasSubmitted[f], flow[f])
  /\ UNCHANGED <<sends, verifies, checks, session, issued, accepted, checkLog, leftAlready, props>>

\* the insert succeeded: onSubmitSuccess switches the page to its thanks view
InsertSucceeded(f) ==
  /\ inserts[f] # {}
  /\ db' = submitSurveyResponse(db, inserts[f])
  /\ inserts' = [inserts EXCEPT ![f] = {}]
  /\ Render(f, [form[f] EXCEPT !.isSubmitting = FALSE], TRUE, flow[f])
  /\ UNCHANGED <<sends, verifies, checks, session, issued, accepted, checkLog, leftAlready, props>>

\* variant: no finally block
InsertFailedNoFinally(f) ==
  /\ inserts[f] # {}
  /\ inserts' = [inserts EXCEPT ![f] = {}]
  /\ Render(f, [form[f] EXCEPT !.toast = "Submission Error"], FALSE, flow[f])
  /\ UNCHANGED <<sends, verifies, checks, session, issued, accepted, db, checkLog, leftAlready, props>>

\* the insert failed: the catch block shows the "Submission Error" toast
\* (the one toast the model keeps) and the finally block enables the button
InsertFailed(f) ==
  /\ inserts[f] # {}
  /\ inserts' = [inserts EXCEPT ![f] = {}]
  /\ Render(f, [form[f] EXCEPT !.isSubmitting = FALSE, !.toast = "Submission Error"],
            FALSE, flow[f])
  /\ UNCHANGED <<sends, verifies, checks, session, issued, accepted, db, checkLog, leftAlready, props>>

\* ------------------------------------- VerifyEmail and LandingPage polling
\* refreshSession calls one view may start
MaxChecks == 3
\* times one polling view is opened
MaxInstances == 2

\* checkVerification up to its await, with the isCheckingVerification of the
\* render that created it; a view that is gone takes no state update
checkVerification(p) ==
  IF p.isCheckingVerification
    THEN p
    ELSE [p EXCEPT !.isCheckingVerification = IF p.mounted THEN TRUE ELSE @,
                   !.inFlight = Append(@, p.instance),
                   !.started = @ + 1]

\* the polling effect after a render: its cleanup clears the interval, then,
\* if the view is waiting for a confirmation, it checks at once and sets
\* the interval again
PollingEffect(p) ==
  IF p.active
    THEN [checkVerification(p) EXCEPT !.interval = TRUE]
    ELSE [p EXCEPT !.interval = FALSE]

\* the router shows the view; VerifyEmail waits from the start, LandingPage
\* once it is in verification mode
PollMount(v) ==
  /\ \A w \in PollViews : ~poll[w].mounted
  /\ poll[v].instance < MaxInstances
  /\ poll[v].started < MaxChecks
  /\ poll' = [poll EXCEPT ![v] =
       PollingEffect([@ EXCEPT !.mounted = TRUE,
                               !.instance = @ + 1,
                               !.active = (v = "VerifyEmail"),
                               !.isCheckingVerification = FALSE,
                               !.observed = FALSE])]
  /\ UNCHANGED <<respondent, inline, stats, confirmed, owner>>

\* variant: the cleanup of the polling effect leaves the interval set
PollUnmountKeepsInterval(v) ==
  /\ poll[v].mounted
  /\ poll' = [poll EXCEPT ![v] = [@ EXCEPT !.mounted = FALSE]]
  /\ UNCHANGED <<respondent, inline, stats, confirmed, owner>>

\* the router leaves the view: the cleanup of the polling effect
PollUnmount(v) ==
  /\ poll[v].mounted
  /\ poll' = [poll EXCEPT ![v] = [@ EXCEPT !.mounted = FALSE, !.interval = FALSE]]
  /\ UNCHANGED <<respondent, inline, stats, confirmed, owner>>

\* LandingPage: sign-up succeeded, or sign-in was refused for an unverified
\* address: setVerificationSent(true), setVerificationEmail(email)
EnterVerificationMode(v) ==
  /\ v = "LandingPage"
  /\ poll[v].mounted
  /\ ~poll[v].active
  /\ poll[v].started < MaxChecks
  /\ poll' = [poll EXCEPT ![v] = PollingEffect([@ EXCEPT !.active = TRUE])]
  /\ UNCHANGED <<respondent, inline, stats, confirmed, owner>>

\* LandingPage: back to the sign-in form
LeaveVerificationMode(v) ==
  /\ v = "LandingPage"
  /\ poll[v].mounted
  /\ poll[v].active
  /\ poll' = [poll EXCEPT ![v] = PollingEffect([@ EXCEPT !.active = FALSE])]
  /\ UNCHANGED <<respondent, inline, stats, confirmed, owner>>

\* the 5-second interval fires
IntervalFires(v) ==
  /\ poll[v].interval
  /\ poll[v].started < MaxChecks
  /\ poll' = [poll EXCEPT ![v] =
       IF @.mounted THEN PollingEffect(checkVerification(@)) ELSE checkVerification(@)]
  /\ UNCHANGED <<respondent, inline, stats, confirmed, owner>>

\* the respondent of the confirmation mail follows its link
ConfirmEmail ==
  /\ ~confirmed
  /\ confirmed' = TRUE
  /\ UNCHANGED <<respondent, inline, stats, poll, owner>>

\* refreshSession returned: with a confirmed user the view navigates to the
\* dashboard, which takes whatever polling view is shown off the screen;
\* the finally block clears isCheckingVerification, and the render that
\* follows runs the polling effect again
RefreshReturned(v, i, sawConfirmed) ==
  /\ i \in DOMAIN poll[v].inFlight
  /\ sawConfirmed => confirmed
  /\ LET p == poll[v]
         alive == p.mounted /\ p.instance = p.inFlight[i]
         returned == [p EXCEPT !.inFlight = RemoveAt(@, i)]
     IN IF sawConfirmed
          THEN poll' = [w \in PollViews |->
                 LET left == [(IF w = v THEN returned ELSE poll[w])
                                EXCEPT !.mounted = FALSE, !.interval = FALSE]
                 IN IF w = v /\ alive THEN [left EXCEPT !.observed = TRUE] ELSE left]
          ELSE /\ alive => p.started < MaxChecks
               /\ poll' = [poll EXCEPT ![v] =
                    IF alive
                      THEN PollingEffect([returned EXCEPT !.isCheckingVerification = FALSE])
                      ELSE returned]
  /\ UNCHANGED <<respondent, inline, stats, confirmed, owner>>

\* ------------------------------------------------------ EmailVerification
\* the e-mail input's onChange
InlineSetEmail(e) ==
  /\ ~inline.showCodeInput /\ ~inline.isLoading
  /\ e # inline.email
  /\ inline' = [inline EXCEPT !.email = e]
  /\ UNCHANGED <<respondent, polling, owner, stats>>

\* the code input's onChange: replace(/[^0-9]/g, '').slice(0, 6)
InlineSetCode(raw) ==
  /\ inline.showCodeInput /\ ~inline.isLoading
  /\ CodeInputFilter(raw) # inline.verificationCode
  /\ inline' = [inline EXCEPT !.verificationCode = CodeInputFilter(raw)]
  /\ UNCHANGED <<respondent, polling, owner, stats>>

\* the Verify button of the e-mail input and the Resend link of the code
\* input: handleSendOTP up to its await
InlineSendOTP ==
  /\ ~inline.isLoading
  /\ inline.showCodeInput => inline.countdown = 0
  /\ IF inline.email = <<>>
       THEN inline' = [inline EXCEPT !.error = "Please enter your email address"]
       ELSE IF ~isValidEmail(inline.email)
         THEN inline' = [inline EXCEPT !.error = "Please enter a valid email address"]
         ELSE /\ Len(inline.sends) + Len(inline.verifies) < MaxInFlight
              /\ inline' = [inline EXCEPT !.error = NoMessage, !.isLoading = TRUE,
                                          !.sends = Append(@, inline.email)]
  /\ UNCHANGED <<respondent, polling, owner, stats>>

\* signInWithOtp of EmailVerification returned
InlineSendReturned(i, ok, c) ==
  /\ i \in DOMAIN inline.sends
  /\ inline' = IF ok
       THEN [inline EXCEPT !.showCodeInput = TRUE, !.countdown = cooldown,
                           !.isLoading = FALSE,
                           !.issued = [email |-> inline.sends[i], code |-> c],
                           !.sends = RemoveAt(@, i)]
       ELSE [inline EXCEPT !.error = "send failed", !.isLoading = FALSE,
                           !.sends = RemoveAt(@, i)]
  /\ UNCHANGED <<respondent, polling, owner, stats>>

\* the countdown effect of EmailVerification
InlineTick ==
  /\ inline.countdown > 0
  /\ inline' = [inline EXCEPT !.countdown = @ - 1]
  /\ UNCHANGED <<respondent, polling, owner, stats>>

\* the Submit button of the code input: handleVerifyOTP of EmailVerification
\* up to its await; the code is only tested for being empty
InlineVerifyOTP ==
  /\ inline.showCodeInput /\ ~inline.isLoading
  /\ IF inline.verificationCode = <<>>
       THEN inline' = [inline EXCEPT !.error = "Please enter the verification code"]
       ELSE /\ Len(inline.sends) + Len(inline.verifies) < MaxInFlight
            /\ inline' = [inline EXCEPT !.error = NoMessage, !.isLoading = TRUE,
                            !.verifies = Append(@, [email |-> inline.email,
                                                    token |-> inline.verificationCode])]
  /\ UNCHANGED <<respondent, polling, owner, stats>>

\* verifyOtp of EmailVerification returned: with a user (then signOut and
\* onVerificationSuccess) or with an error
InlineVerifyReturned(i) ==
  /\ i \in DOMAIN inline.verifies
  /\ LET r == inline.verifies[i]
         matches == inline.issued.code # NoCode /\ inline.issued = [email |-> r.email, code |-> r.token]
     IN inline' = IF matches
          THEN [inline EXCEPT !.isLoading = FALSE, !.verified = @ \cup {r.email},
                              !.issued = [email |-> NoEmail, code |-> NoCode],
                              !.verifies = RemoveAt(@, i)]
          ELSE [inline EXCEPT !.isLoading = FALSE, !.error = "Token has expired or is invalid",
                              !.verifies = RemoveAt(@, i)]
  /\ UNCHANGED <<respondent, polling, owner, stats>>

\* ------------------------------------------------- SurveyForm (the editor)
\* addQuestion returns at this many questions
MaxSurveyQuestions == 5
\* addQuestion calls in one behaviour
MaxAdds == 2
\* response rows of the old survey page in one behaviour
MaxResponses == 1

RECURSIVE SortByOrder(_)
\* [...survey.questions].sort((a, b) => a.order - b.order)
SortByOrder(rows) ==
  IF rows = <<>> THEN <<>>
  ELSE LET k == CHOOSE i \in DOMAIN rows :
                  \A j \in DOMAIN rows :
                    rows[i].order < rows[j].order \/ (rows[i].order = rows[j].order /\ i <= j)
       IN <<rows[k]>> \o SortByOrder(RemoveAt(rows, k))

\* the questions rows of a survey, in table order
QuestionsOf(t, surveyId) == SelectSeq(t.questions, LAMBDA row : row.survey_id = surveyId)

\* question rows as SurveyForm holds them: it never reads the id of a row
Unstored(rows) ==
  [i \in DOMAIN rows |->
     [survey_id |-> rows[i].survey_id, question_text |-> rows[i].question_text,
      question_type |-> rows[i].question_type, required |-> rows[i].required,
      options |-> rows[i].options, order |-> rows[i].order]]

\* the effect on [survey, isOpen]: the form takes the survey's fields, its
\* questions sorted by order, or is reset for a new survey
OpenEditor(editing) ==
  /\ op.kind = "none"
  /\ editing => \E row \in tables.surveys : row.id = "S"
  /\ editor' = [editor EXCEPT
       !.editing = editing,
       !.title = IF editing THEN (CHOOSE row \in tables.surveys : row.id = "S").title ELSE <<>>,
       !.isPublished = IF editing
                         THEN (CHOOSE row \in tables.surveys : row.id = "S").is_published
                         ELSE FALSE,
       !.questions = IF editing THEN Unstored(SortByOrder(QuestionsOf(tables, "S"))) ELSE <<>>,
       !.isLoading = FALSE,
       !.error = NoMessage]
  /\ UNCHANGED <<respondent, inline, stats, polling, tables, op>>

\* the Publish switch of SurveyForm
setIsPublished(checked) ==
  /\ editor.isPublished # checked
  /\ editor' = [editor EXCEPT !.isPublished = checked]
  /\ UNCHANGED <<respondent, inline, stats, polling, tables, op>>

setTitle(t) ==
  /\ editor.title # t
  /\ editor' = [editor EXCEPT !.title = t]
  /\ UNCHANGED <<respondent, inline, stats, polling, tables, op>>

\* addQuestion
addQuestion ==
  /\ editor.clock <= MaxAdds
  /\ IF Len(editor.questions) >= MaxSurveyQuestions
       THEN UNCHANGED editor
       ELSE editor' = [editor EXCEPT
              !.questions = Append(@, [survey_id |-> IF editor.editing THEN "S" ELSE "",
                                       question_text |-> <<>>,
                                       question_type |-> "text",
                                       required |-> FALSE,
                                       options |-> << <<>> >>,
                                       order |-> Len(editor.questions)]),
              !.clock = @ + 1]
  /\ UNCHANGED <<respondent, inline, stats, polling, tables, op>>

\* updateQuestion(index, 'question_text', value)
updateQuestion(index, value) ==
  /\ index \in DOMAIN editor.questions
  /\ editor.questions[index].question_text # value
  /\ editor' = [editor EXCEPT !.questions[index].question_text = value]
  /\ UNCHANGED <<respondent, inline, stats, polling, tables, op>>

\* variant: the remaining questions keep their order
deleteQuestionKeepsOrder(index) ==
  /\ index \in DOMAIN editor.questions
  /\ editor' = [editor EXCEPT !.questions = RemoveAt(@, index)]
  /\ UNCHANGED <<respondent, inline, stats, polling, tables, op>>

\* deleteQuestion
deleteQuestion(index) ==
  /\ index \in DOMAIN editor.questions
  /\ LET filteredQuestions == RemoveAt(editor.questions, index)
         updatedQuestions == [idx \in DOMAIN filteredQuestions |->
                                [filteredQuestions[idx] EXCEPT !.order = idx - 1]]
     IN editor' = [editor EXCEPT !.questions = updatedQuestions]
  /\ UNCHANGED <<respondent, inline, stats, polling, tables, op>>

\* questionsToInsert of updateSurvey and createSurvey
questionsToInsert(surveyId, questions) ==
  [index \in DOMAIN questions |->
     [survey_id |-> surveyId,
      question_text |-> questions[index].question_text,
      question_type |-> questions[index].question_type,
      options |-> questions[index].options,
      required |-> questions[index].required,
      order |-> index - 1]]

\* the ids the questions table can hand out
QuestionIds == <<"q1", "q2", "q3", "q4", "q5", "q6">>

\* the ids no question row has and no answer row names
FreeIds(t, answers) ==
  SelectSeq(QuestionIds,
            LAMBDA id : /\ \A i \in DOMAIN t.questions : t.questions[i].id # id
                        /\ \A k \in DOMAIN answers : \A row \in answers[k] :
                             row.question_id # id)

\* a row as the table stores it, with the id the database gave it
Stored(row, id) ==
  [id |-> id, survey_id |-> row.survey_id, question_text |-> row.question_text,
   question_type |-> row.question_type, options |-> row.options,
   required |-> row.required, order |-> row.order]

\* from('questions').insert(rows): every row gets an id of its own
InsertQuestions(t, answers, rows) ==
  [t EXCEPT !.questions =
     @ \o [i \in DOMAIN rows |-> Stored(rows[i], FreeIds(t, answers)[i])]]

\* from('questions').delete().eq('survey_id', surveyId)
DeleteQuestions(t, surveyId) ==
  [t EXCEPT !.questions = SelectSeq(@, LAMBDA row : row.survey_id # surveyId)]

\* the answers table after the question rows of a survey are deleted: its
\* rows are left as they are, or the rows of those questions go with them
\* (ON DELETE CASCADE); a delete the database refuses is a failed call
AnswersAfterDelete(answers, t, surveyId) ==
  IF t.cascade
    THEN [k \in DOMAIN answers |->
            {row \in answers[k] :
               \A i \in DOMAIN t.questions :
                 t.questions[i].survey_id = surveyId => t.questions[i].id # row.question_id}]
    ELSE answers

\* an operation begins: what is persisted now is remembered
Begin(kind, pc, payload) ==
  [kind |-> kind, pc |-> pc, payload |-> payload, before |-> tables, outcome |-> "none"]

\* an operation ends
End(outcome) == [OpInit EXCEPT !.outcome = outcome]

\* SurveyForm.handleSubmit up to the first await of updateSurvey or
\* createSurvey
SurveyFormSubmit ==
  /\ op.kind = "none"
  /\ ~editor.isLoading
  /\ IF Trim(editor.title) = <<>>
       THEN /\ editor' = [editor EXCEPT !.error = "Title is required"]
            /\ UNCHANGED op
       ELSE IF \E i \in DOMAIN editor.questions : Trim(editor.questions[i].question_text) = <<>>
         THEN /\ editor' = [editor EXCEPT !.error = "Question is missing a question text"]
              /\ UNCHANGED op
         ELSE /\ editor' = [editor EXCEPT !.error = NoMessage, !.isLoading = TRUE]
              /\ op' = Begin(IF editor.editing THEN "save" ELSE "create",
                             IF editor.editing THEN "update" ELSE "insertSurvey",
                             [title |-> Trim(editor.title),
                              is_published |-> editor.isPublished,
                              questions |-> editor.questions])
  /\ UNCHANGED <<respondent, inline, stats, polling, tables>>

\* the catch and finally of SurveyForm.handleSubmit
SurveyFormFailed == [editor EXCEPT !.error = "Error saving survey", !.isLoading = FALSE]

\* onSuccess, onClose and the finally of SurveyForm.handleSubmit
SurveyFormSaved == [editor EXCEPT !.isLoading = FALSE]

\* one call of updateSurvey returned
SaveReturned(ok) ==
  /\ op.kind = "save"
  /\ ok /\ op.pc = "update" => \E row \in tables.surveys : row.id = "S"
  /\ ok /\ op.pc = "insert" => Len(FreeIds(tables, db)) >= Len(op.payload.questions)
  /\ IF ~ok
       THEN /\ op' = End("failed")
            /\ editor' = SurveyFormFailed
            /\ UNCHANGED <<tables, db>>
       ELSE CASE op.pc = "update" ->
                   /\ tables' = [tables EXCEPT !.surveys =
                        {IF row.id = "S"
                           THEN [row EXCEPT !.title = op.payload.title,
                                            !.is_published = op.payload.is_published]
                           ELSE row : row \in tables.surveys}]
                   /\ op' = [op EXCEPT !.pc = IF Len(op.payload.questions) > 0
                                                THEN "delete" ELSE "fetch"]
                   /\ UNCHANGED <<editor, db>>
              [] op.pc = "delete" ->
                   /\ tables' = DeleteQuestions(tables, "S")
                   /\ db' = AnswersAfterDelete(db, tables, "S")
                   /\ op' = [op EXCEPT !.pc = "insert"]
                   /\ UNCHANGED editor
              [] op.pc = "insert" ->
                   /\ tables' = InsertQuestions(tables, db,
                                                questionsToInsert("S", op.payload.questions))
                   /\ op' = [op EXCEPT !.pc = "fetch"]
                   /\ UNCHANGED <<editor, db>>
              [] op.pc = "fetch" ->
                   /\ op' = End("done")
                   /\ editor' = SurveyFormSaved
                   /\ UNCHANGED <<tables, db>>
  /\ UNCHANGED <<visitor, inline, stats, polling>>

\* one call of createSurvey returned
CreateReturned(ok) ==
  /\ op.kind = "create"
  /\ ok /\ op.pc = "insert" => Len(FreeIds(tables, db)) >= Len(op.payload.questions)
  /\ IF ~ok
       THEN /\ op' = End("failed")
            /\ editor' = SurveyFormFailed
            /\ UNCHANGED tables
       ELSE CASE op.pc = "insertSurvey" ->
                   /\ \A row \in tables.surveys : row.id # "N"
                   /\ tables' = [tables EXCEPT !.surveys =
                        @ \cup {[id |-> "N", title |-> op.payload.title,
                                 is_published |-> op.payload.is_published]}]
                   /\ op' = [op EXCEPT !.pc = IF Len(op.payload.questions) > 0
                                                THEN "insert" ELSE "fetch"]
                   /\ UNCHANGED editor
              [] op.pc = "insert" ->
                   /\ tables' = InsertQuestions(tables, db,
                                                questionsToInsert("N", op.payload.questions))
                   /\ op' = [op EXCEPT !.pc = "fetch"]
                   /\ UNCHANGED editor
              [] op.pc = "fetch" ->
                   /\ op' = End("done")
                   /\ editor' = SurveyFormSaved
                   /\ UNCHANGED tables
  /\ UNCHANGED <<respondent, inline, stats, polling>>

\* CompanyDashboard.handleDeleteSurvey, confirmed, up to its first await
handleDeleteSurvey(surveyId) ==
  /\ op.kind = "none"
  /\ \E row \in tables.surveys : row.id = surveyId
  /\ op' = Begin("delete", "deleteQuestions", NoPayload)
  /\ UNCHANGED <<respondent, inline, stats, polling, editor, tables>>

\* one call of handleDeleteSurvey("S") returned
DeleteSurveyReturned(ok) ==
  /\ op.kind = "delete"
  /\ IF ~ok
       THEN /\ op' = End("failed")
            /\ UNCHANGED <<tables, db>>
       ELSE CASE op.pc = "deleteQuestions" ->
                   /\ tables' = DeleteQuestions(tables, "S")
                   /\ db' = AnswersAfterDelete(db, tables, "S")
                   /\ op' = [op EXCEPT !.pc = "deleteSurvey"]
              [] op.pc = "deleteSurvey" ->
                   /\ tables' = [tables EXCEPT !.surveys = {row \in @ : row.id # "S"}]
                   /\ op' = End("done")
                   /\ UNCHANGED db
  /\ UNCHANGED <<visitor, inline, stats, polling, editor>>

\* the old SurveyForm.handleSubmit, past its validation, up to the insert of
\* the response row
OldSurveySubmit ==
  /\ op.kind = "none"
  /\ tables.responses < MaxResponses
  /\ op' = Begin("oldSubmit", "insertResponse", NoPayload)
  /\ UNCHANGED <<respondent, inline, stats, polling, editor, tables>>

\* one insert of the old SurveyForm.handleSubmit returned
OldSubmitReturned(ok) ==
  /\ op.kind = "oldSubmit"
  /\ IF ~ok
       THEN /\ op' = End("failed")
            /\ UNCHANGED tables
       ELSE CASE op.pc = "insertResponse" ->
                   /\ tables' = [tables EXCEPT !.responses = @ + 1]
                   /\ op' = [op EXCEPT !.pc = "insertAnswers"]
              [] op.pc = "insertAnswers" ->
                   /\ tables' = [tables EXCEPT !.answers = @ + 1]
                   /\ op' = End("done")
  /\ UNCHANGED <<respondent, inline, stats, polling, editor>>

\* ------------------------------------------------------------ SurveyStats
\* answer rows loaded by one page
MaxRows == 3

\* the rows of one question: responses.filter(r => r.question_id === question.id)
questionResponses(responses, qid) == SelectSeq(responses, LAMBDA r : r.question_id = qid)

\* questionCounts of getSurveyStatistics, read as stats.questionStats[id] || 0
questionStats(responses, qid) == Len(questionResponses(responses, qid))

\* [...new Set(responses.map(r => r.email))]
uniqueEmails(responses) == {responses[i].email : i \in DOMAIN responses}

\* variant: the quotient is cut off
MathTruncate(n, d) == n \div d

\* Math.round(n / d) for n >= 0, d > 0: the integer at or below n/d + 1/2
MathRound(n, d) == (2 * n + d) \div (2 * d)

\* questionResponseRates of getResponseSummary
questionResponseRates(questions, responses, counted) ==
  LET totalResponses == Cardinality(uniqueEmails(responses))
  IN [i \in DOMAIN questions |->
        LET responseCount == questionStats(counted, questions[i].id)
        IN [responses |-> responseCount,
            responseRate |-> IF totalResponses > 0
                               THEN MathRound(responseCount * 100, totalResponses)
                               ELSE 0]]

\* the overview panel renders getResponseSummary()
getResponseSummary ==
  /\ stats.pc = "loaded"
  /\ stats.shown # "summary"
  /\ stats' = [stats EXCEPT !.shown = "summary",
                            !.summary = questionResponseRates(stats.questions, stats.responses,
                                                              stats.counted)]
  /\ UNCHANGED <<respondent, inline, polling, owner>>

\* the property names an object literal inherits from Object.prototype
\* (those a test string of the model can spell)
InheritedKeys == { <<"t", "o", "S", "t", "r", "i", "n", "g">>,
                   <<"v", "a", "l", "u", "e", "O", "f">> }

\* optionCounts is the list of its own entries in insertion order; a count
\* is a number or NaN
CountEntry(name, value) == [name |-> name, value |-> value, isNaN |-> FALSE]
NaNEntry(name) == [name |-> name, value |-> 0, isNaN |-> TRUE]

OwnKey(optionCounts, key) == \E k \in DOMAIN optionCounts : optionCounts[k].name = key

RECURSIVE InitCounts(_)
\* (question.options || []).forEach(option => { optionCounts[option] = 0 })
InitCounts(options) ==
  IF options = <<>> THEN <<>>
  ELSE LET before == InitCounts(SubSeq(options, 1, Len(options) - 1))
           option == options[Len(options)]
       IN IF OwnKey(before, option)
            THEN [k \in DOMAIN before |->
                    IF before[k].name = option THEN CountEntry(option, 0) ELSE before[k]]
            ELSE Append(before, CountEntry(option, 0))

\* if (optionCounts[key] !== undefined) optionCounts[key]++ : the lookup
\* follows the prototype chain, and incrementing an inherited function
\* stores NaN as an own entry
Increment(optionCounts, key) ==
  IF OwnKey(optionCounts, key)
    THEN [k \in DOMAIN optionCounts |->
            IF optionCounts[k].name = key /\ ~optionCounts[k].isNaN
              THEN CountEntry(key, optionCounts[k].value + 1)
              ELSE optionCounts[k]]
    ELSE IF key \in InheritedKeys
      THEN Append(optionCounts, NaNEntry(key))
      ELSE optionCounts

\* JSON.stringify of a list of strings without quotes or backslashes
Stringify(list) ==
  <<"[">> \o Join([k \in DOMAIN list |-> <<"\"">> \o list[k] \o <<"\"">>], <<",">>) \o <<"]">>

\* the index of the first c in s at or after i, 0 if there is none
RECURSIVE IndexFrom(_, _, _)
IndexFrom(s, c, i) ==
  IF i > Len(s) THEN 0
  ELSE IF s[i] = c THEN i
  ELSE IndexFrom(s, c, i + 1)

\* the elements of a JSON array of strings, after the opening bracket:
\* "..." then , or the end
RECURSIVE ParseElements(_)
ParseElements(s) ==
  IF s = <<>> \/ s[1] # "\"" THEN [ok |-> FALSE, v |-> <<>>]
  ELSE LET close == IndexFrom(s, "\"", 2)
       IN IF close = 0 THEN [ok |-> FALSE, v |-> <<>>]
          ELSE LET element == SubSeq(s, 2, close - 1)
                   rest == SubSeq(s, close + 1, Len(s))
               IN IF "\\" \in {element[k] : k \in DOMAIN element} THEN [ok |-> FALSE, v |-> <<>>]
                  ELSE IF rest = <<>> THEN [ok |-> TRUE, v |-> <<element>>]
                  ELSE IF rest[1] # "," THEN [ok |-> FALSE, v |-> <<>>]
                  ELSE LET more == ParseElements(Tail(rest))
                       IN [ok |-> more.ok, v |-> IF more.ok THEN <<element>> \o more.v ELSE <<>>]

\* JSON.parse(text) followed by selectedOptions.forEach: ok is false where
\* either throws (no JSON, or JSON that is no array)
JSONParseList(text) ==
  IF Len(text) < 2 \/ text[1] # "[" \/ text[Len(text)] # "]" THEN [ok |-> FALSE, v |-> <<>>]
  ELSE IF Len(text) = 2 THEN [ok |-> TRUE, v |-> <<>>]
  ELSE ParseElements(SubSeq(text, 2, Len(text) - 1))

\* Array.isArray(v) ? v : JSON.parse(v || '[]'), inside the try
selectedOptions(answer_value) ==
  IF answer_value.kind = "array" THEN [ok |-> TRUE, v |-> answer_value.v]
  ELSE JSONParseList(IF answer_value.v = <<>> THEN <<"[", "]">> ELSE answer_value.v)

RECURSIVE IncrementAll(_, _)
\* selectedOptions.forEach(option => ...)
IncrementAll(optionCounts, options) ==
  IF options = <<>> THEN optionCounts
  ELSE IncrementAll(Increment(optionCounts, Head(options)), Tail(options))

RECURSIVE CountCheckbox(_, _)
\* questionResponses.forEach of the checkbox branch
CountCheckbox(optionCounts, rows) ==
  IF rows = <<>> THEN optionCounts
  ELSE LET selected == selectedOptions(Head(rows).answer_value)
       IN CountCheckbox(IF selected.ok THEN IncrementAll(optionCounts, selected.v)
                                       ELSE optionCounts,
                        Tail(rows))

RECURSIVE CountRadio(_, _)
\* questionResponses.forEach of the radio branch
CountRadio(optionCounts, rows) ==
  IF rows = <<>> THEN optionCounts
  ELSE CountRadio(Increment(optionCounts, Head(rows).answer_text), Tail(rows))

\* processMultipleChoiceData: Object.entries(optionCounts)
processMultipleChoiceData(question, responses) ==
  IF question.question_type = "checkbox"
    THEN CountCheckbox(InitCounts(question.options), questionResponses(responses, question.id))
    ELSE CountRadio(InitCounts(question.options), questionResponses(responses, question.id))

\* the chart of a choice question is rendered
ShowChart(i) ==
  /\ i \in DOMAIN stats.questions
  /\ stats.questions[i].question_type \in {"radio", "checkbox"}
  /\ ~(stats.shown = "chart" /\ stats.subject = i)
  /\ stats' = [stats EXCEPT !.shown = "chart", !.subject = i,
                            !.chart = processMultipleChoiceData(stats.questions[i], stats.responses)]
  /\ UNCHANGED <<respondent, inline, polling, owner>>

\* getTextResponses: the answer_text of the question's rows
getTextResponses(question, responses) ==
  LET rows == questionResponses(responses, question.id)
  IN [k \in DOMAIN rows |-> rows[k].answer_text]

DigitChars == <<"0", "1", "2", "3", "4", "5", "6", "7", "8", "9">>

DigitValue(c) == (CHOOSE n \in DOMAIN DigitChars : DigitChars[n] = c) - 1

\* the longest prefix of digits
RECURSIVE DigitPrefix(_)
DigitPrefix(s) ==
  IF s = <<>> \/ s[1] \notin Digits THEN <<>>
  ELSE <<s[1]>> \o DigitPrefix(Tail(s))

RECURSIVE DecimalValue(_)
DecimalValue(digits) ==
  IF digits = <<>> THEN 0
  ELSE 10 * DecimalValue(SubSeq(digits, 1, Len(digits) - 1)) + DigitValue(digits[Len(digits)])

\* parseFloat of a text without '.', 'e' or "Infinity": leading white space
\* is skipped, then a sign and the longest run of digits are read; NaN
\* without a digit
parseFloat(text) ==
  LET t == TrimLeft(text)
      negative == t # <<>> /\ t[1] = "-"
      unsigned == IF t # <<>> /\ t[1] \in {"-", "+"} THEN Tail(t) ELSE t
      digits == DigitPrefix(unsigned)
  IN IF digits = <<>> THEN [isNaN |-> TRUE, n |-> 0]
     ELSE [isNaN |-> FALSE, n |-> IF negative THEN -DecimalValue(digits) ELSE DecimalValue(digits)]

\* .map(r => parseFloat(r.answer)).filter(n => !isNaN(n))
ParsedNumbers(texts) ==
  LET parsed == [k \in DOMAIN texts |-> parseFloat(texts[k])]
      kept == SelectSeq(parsed, LAMBDA x : ~x.isNaN)
  IN [k \in DOMAIN kept |-> kept[k].n]

RECURSIVE Sum(_)
Sum(ns) == IF ns = <<>> THEN 0 ELSE Head(ns) + Sum(Tail(ns))

\* a number shown on the page: finite, or what Math.min() and Math.max()
\* give without arguments
Finite(n) == [kind |-> "finite", n |-> n]
PlusInfinity == [kind |-> "Infinity", n |-> 0]
MinusInfinity == [kind |-> "-Infinity", n |-> 0]

\* Math.min(...ns)
MathMin(ns) ==
  IF ns = <<>> THEN PlusInfinity
  ELSE Finite(CHOOSE x \in {ns[k] : k \in DOMAIN ns} : \A k \in DOMAIN ns : x <= ns[k])

\* Math.max(...ns)
MathMax(ns) ==
  IF ns = <<>> THEN MinusInfinity
  ELSE Finite(CHOOSE x \in {ns[k] : k \in DOMAIN ns} : \A k \in DOMAIN ns : x >= ns[k])

\* ns.reduce((sum, n, _, arr) => sum + n / arr.length, 0).toFixed(2), in
\* hundredths
AverageToFixed2(ns) ==
  IF ns = <<>> THEN 0
  ELSE IF Sum(ns) >= 0 THEN MathRound(100 * Sum(ns), Len(ns))
  ELSE -MathRound(100 * (-Sum(ns)), Len(ns))

NoNumbers == [displayed |-> FALSE, average |-> 0, min |-> Finite(0), max |-> Finite(0)]

\* the "Number Statistics" block of a number question
NumberStatistics(question, responses) ==
  IF question.question_type = "number" /\ Len(getTextResponses(question, responses)) > 0
    THEN LET ns == ParsedNumbers(getTextResponses(question, responses))
         IN [displayed |-> TRUE, average |-> AverageToFixed2(ns),
             min |-> MathMin(ns), max |-> MathMax(ns)]
    ELSE NoNumbers

\* the panel of a text-like question is rendered
ShowResponses(i) ==
  /\ i \in DOMAIN stats.questions
  /\ stats.questions[i].question_type \in {"text", "textarea", "date", "number"}
  /\ ~(stats.shown = "responses" /\ stats.subject = i)
  /\ stats' = [stats EXCEPT !.shown = "responses", !.subject = i,
                            !.numbers = NumberStatistics(stats.questions[i], stats.responses)]
  /\ UNCHANGED <<respondent, inline, polling, owner>>

\* the decimal digits of a natural number
RECURSIVE ToDigits(_)
ToDigits(n) ==
  IF n < 10 THEN <<DigitChars[n + 1]>>
  ELSE ToDigits(n \div 10) \o <<DigitChars[(n % 10) + 1]>>

MonthShort ==
  << <<"J", "a", "n">>, <<"F", "e", "b">>, <<"M", "a", "r">>, <<"A", "p", "r">>,
     <<"M", "a", "y">>, <<"J", "u", "n">>, <<"J", "u", "l">>, <<"A", "u", "g">>,
     <<"S", "e", "p">>, <<"O", "c", "t">>, <<"N", "o", "v">>, <<"D", "e", "c">> >>

\* formatDate: toLocaleDateString('en-US', {year: 'numeric', month: 'short',
\* day: 'numeric'}), as in "Jan 5, 2024"
formatDate(date) ==
  MonthShort[date.month] \o <<" ">> \o ToDigits(date.day) \o <<",", " ">> \o ToDigits(date.year)

\* ['Respondent ID', 'Date'] and the question texts
CsvHeaders(questions) ==
  << <<"R", "e", "s", "p", "o", "n", "d", "e", "n", "t", " ", "I", "D">>,
     <<"D", "a", "t", "e">> >>
  \o [i \in DOMAIN questions |-> questions[i].question_text]

RECURSIVE DoubleQuotes(_)
\* answer.replace(/"/g, '""')
DoubleQuotes(text) ==
  IF text = <<>> THEN <<>>
  ELSE (IF Head(text) = "\"" THEN <<"\"", "\"">> ELSE <<Head(text)>>) \o DoubleQuotes(Tail(text))

\* `"${answer.replace(/"/g, '""')}"`
Quoted(text) == <<"\"">> \o DoubleQuotes(text) \o <<"\"">>

RECURSIVE FirstEmails(_)
\* the keys of respondentMap in insertion order
FirstEmails(responses) ==
  IF responses = <<>> THEN <<>>
  ELSE LET before == FirstEmails(SubSeq(responses, 1, Len(responses) - 1))
           email == responses[Len(responses)].email
       IN IF Includes(before, email) THEN before ELSE Append(before, email)

\* the entry of respondentMap for an email: the date of its first row and,
\* per question, the answer_text of its last row for that question
RespondentEntry(responses, email) ==
  LET own == SelectSeq(responses, LAMBDA r : r.email = email)
  IN [email |-> email,
      date |-> formatDate(own[1].created_at),
      answers |-> [qid \in {own[k].question_id : k \in DOMAIN own} |->
                     LET last == CHOOSE k \in DOMAIN own :
                                   /\ own[k].question_id = qid
                                   /\ \A l \in DOMAIN own : own[l].question_id = qid => l <= k
                     IN own[last].answer_text]]

\* one data row: email, date and the quoted answers in question order
CsvRow(entry, questions) ==
  <<entry.email, entry.date>>
  \o [i \in DOMAIN questions |->
        Quoted(IF questions[i].id \in DOMAIN entry.answers
                 THEN entry.answers[questions[i].id]
                 ELSE <<>>)]

\* csvContent of generateCSV
csvContent(questions, responses) ==
  LET emails == FirstEmails(responses)
      rows == << Join(CsvHeaders(questions), <<",">>) >>
              \o [k \in DOMAIN emails |->
                    Join(CsvRow(RespondentEntry(responses, emails[k]), questions), <<",">>)]
  IN Join(rows, <<"\n">>)

\* generateCSV
generateCSV ==
  /\ stats.shown # "csv"
  /\ stats' = [stats EXCEPT !.shown = "csv",
                            !.csv = csvContent(stats.questions, stats.responses)]
  /\ UNCHANGED <<respondent, inline, polling, owner>>

\* ---------------------------------------------------------- specifications
\* what a respondent may type and pick
Options == {<<"A">>, <<"B">>}

\* the respondent's and the timer's steps in EmailVerificationFlow
FlowUser(f, emailInputs, codeInputs) ==
  \/ \E e \in emailInputs : setEmail(f, e)
  \/ \E raw \in codeInputs : setVerificationCode(f, raw)
  \/ Continue(f)
  \/ Resend(f)
  \/ Back(f)
  \/ Cancel(f)
  \/ Verify(f)
  \/ Tick(f)

\* the returns of the identity service's calls
IdentityReturns(f) ==
  \/ \E i \in 1..MaxInFlight : \E c \in Codes : SendSucceeded(f, i, c)
  \/ \E i \in 1..MaxInFlight : SendFailed(f, i)
  \/ \E i \in 1..MaxInFlight : VerifyAccepted(f, i)
  \/ \E i \in 1..MaxInFlight : VerifyRejected(f, i)
  \/ \E i \in 1..MaxInFlight : VerifyFailed(f, i)
  \/ \E i \in 1..MaxInFlight : \E ok \in BOOLEAN : SignOutReturned(f, i, ok)

\* the duplicate check's returns and the already-responded view
DuplicateGuard(f) ==
  \/ \E i \in DOMAIN checks[f] : CheckReturned(f, i)
  \/ \E i \in DOMAIN checks[f] : CheckFailed(f, i)
  \/ UseDifferentEmail(f)

\* answering and submitting
Answering(f, textInputs) ==
  \/ \E qid \in Ids(Questions) : \E value \in textInputs : handleTextAnswer(f, qid, value)
  \/ \E qid \in Ids(Questions) : \E option \in Options : handleRadioAnswer(f, qid, option)
  \/ \E qid \in Ids(Questions) : \E option \in Options : handleCheckboxAnswer(f, qid, option)
  \/ handleSubmit(f)
  \/ InsertSucceeded(f)
  \/ InsertFailed(f)

\* what can be typed into the code input: too short, more than six
\* characters with a letter among them, six digits that are not the code
CodeInputs == {<<"1", "2", "3">>, <<"1", "2", "x", "3", "4", "5", "6", "7">>, Code2}

\* Spec: one respondent from the first answer to the thanks view, who may
\* wait out the cooldown and resend, so that calls of the flow overlap; one
\* valid answer per required question
Next ==
  \/ FlowUser(1, Emails, {Code1, Code2})
  \/ \E i \in 1..MaxInFlight : \E c \in Codes : SendSucceeded(1, i, c)
  \/ \E i \in 1..MaxInFlight : VerifyAccepted(1, i)
  \/ \E i \in 1..MaxInFlight : VerifyRejected(1, i)
  \/ \E i \in 1..MaxInFlight : SignOutReturned(1, i, TRUE)
  \/ DuplicateGuard(1)
  \/ handleTextAnswer(1, "q1", <<"a">>)
  \/ handleCheckboxAnswer(1, "q2", <<"A">>)
  \/ handleSubmit(1)
  \/ InsertSucceeded(1)
  \/ InsertFailed(1)

Spec == Init /\ [][Next]_vars

\* SpecFlow: one respondent in the verification flow, with everything that
\* can be typed into it and every way a call can return; answers are only
\* touched to open the flow
NextFlow ==
  \/ FlowUser(1, {BadEmail, E1, E2}, CodeInputs)
  \/ IdentityReturns(1)
  \/ DuplicateGuard(1)
  \/ handleTextAnswer(1, "q1", <<"a">>)
  \/ \E e \in Emails : Expire(e)

SpecFlow == Init /\ [][NextFlow]_vars

\* SpecCooldown: one respondent in the verification flow for the whole
\* length of the cooldown, with one address and a code that is not the one
\* sent
InitCooldown ==
  /\ InitCommon
  /\ db = << EarlierBatch >>
  /\ survey = Questions
  /\ cooldown = ResendCooldown

NextCooldown ==
  \/ FlowUser(1, {E1}, {Code2})
  \/ \E i \in 1..MaxInFlight : \E c \in Codes : SendSucceeded(1, i, c)
  \/ \E i \in 1..MaxInFlight : SendFailed(1, i)
  \/ \E i \in 1..MaxInFlight : VerifyRejected(1, i)
  \/ handleTextAnswer(1, "q1", <<"a">>)

SpecCooldown == InitCooldown /\ [][NextCooldown]_vars

\* SpecCooldownFair: the same respondent, who may also type the code that
\* was sent and so leave the flow; while the flow is mounted with a countdown
\* above 0 its one-second timeout is pending and fires
NextCooldownFair ==
  \/ FlowUser(1, {E1}, {Code1})
  \/ IdentityReturns(1)
  \/ DuplicateGuard(1)
  \/ handleTextAnswer(1, "q1", <<"a">>)

SpecCooldownFair == InitCooldown /\ [][NextCooldownFair]_vars /\ WF_vars(Tick(1))

\* SpecPoll: the two polling views, opened and left at any time, while the
\* confirmation may arrive at any time
NextPoll ==
  \/ \E v \in PollViews : PollMount(v)
  \/ \E v \in PollViews : PollUnmount(v)
  \/ \E v \in PollViews : EnterVerificationMode(v)
  \/ \E v \in PollViews : LeaveVerificationMode(v)
  \/ \E v \in PollViews : IntervalFires(v)
  \/ \E v \in PollViews : \E i \in 1..MaxChecks : \E sawConfirmed \in BOOLEAN :
       RefreshReturned(v, i, sawConfirmed)
  \/ ConfirmEmail

SpecPoll == Init /\ [][NextPoll]_vars

\* SpecOwner: the survey owner edits, saves and deletes, and a respondent of
\* the old survey page submits; every persistence call may fail
Titles == {<<>>, <<"n">>}

QuestionTexts == {<<>>, <<"t">>}

\* the survey was saved before with none, one or two questions, and the
\* table hands its rows out in any order
SavedQuestions ==
  LET t == [question_text |-> <<"t">>, question_type |-> "text", required |-> FALSE,
            options |-> << <<>> >>]
      u == [t EXCEPT !.question_text = <<"u">>]
      one == questionsToInsert("S", <<t>>)
      two == questionsToInsert("S", <<t, u>>)
  IN { <<>>,
       << Stored(one[1], "q1") >>,
       << Stored(two[1], "q1"), Stored(two[2], "q2") >>,
       << Stored(two[2], "q2"), Stored(two[1], "q1") >> }

InitOwner ==
  /\ form = [f \in AllForms |-> FormInit]
  /\ hasSubmitted = [f \in AllForms |-> FALSE]
  /\ flow = [f \in AllForms |-> FlowInit]
  /\ gen = [f \in AllForms |-> 0]
  /\ sends = [f \in AllForms |-> <<>>]
  /\ verifies = [f \in AllForms |-> <<>>]
  /\ checks = [f \in AllForms |-> <<>>]
  /\ inserts = [f \in AllForms |-> {}]
  /\ session = [f \in AllForms |-> NoEmail]
  /\ issued = [e \in Emails |-> NoCode]
  /\ accepted = [f \in AllForms |-> {}]
  /\ checkLog = [f \in AllForms |-> [e \in Emails |-> "none"]]
  /\ leftAlready = [f \in AllForms |-> FALSE]
  /\ loaded = [f \in AllForms |-> "ready"]
  /\ db = <<>>
  /\ survey = Questions
  /\ cooldown = ShortCooldown
  /\ poll = [v \in PollViews |-> PollInit]
  /\ confirmed = FALSE
  /\ editor = EditorInit
  /\ \E rows \in SavedQuestions : tables = [TablesInit EXCEPT !.questions = rows]
  /\ op = OpInit
  /\ stats = StatsInit
  /\ inline = InlineInit

NextOwner ==
  \/ \E editing \in BOOLEAN : OpenEditor(editing)
  \/ \E t \in Titles : setTitle(t)
  \/ addQuestion
  \/ \E index \in 1..MaxSurveyQuestions : \E value \in QuestionTexts : updateQuestion(index, value)
  \/ \E index \in 1..MaxSurveyQuestions : deleteQuestion(index)
  \/ SurveyFormSubmit
  \/ \E ok \in BOOLEAN : SaveReturned(ok)
  \/ \E ok \in BOOLEAN : CreateReturned(ok)
  \/ handleDeleteSurvey("S")
  \/ \E ok \in BOOLEAN : DeleteSurveyReturned(ok)
  \/ OldSurveySubmit
  \/ \E ok \in BOOLEAN : OldSubmitReturned(ok)

SpecOwner == InitOwner /\ [][NextOwner]_vars

\* everything but SurveyStats in its initial state
InitOthers ==
  /\ form = [f \in AllForms |-> FormInit]
  /\ InitPages
  /\ db = << EarlierBatch >>
  /\ survey = Questions
  /\ cooldown = ShortCooldown

\* all lists of at most n elements of S
SeqsUpTo(S, n) == UNION {[1..k -> S] : k \in 0..n}

E3 == <<"c", "@", "x", ".", "y">>

Date1 == [year |-> 2024, month |-> 1, day |-> 5]
Date2 == [year |-> 2023, month |-> 12, day |-> 31]

\* a row of the answers table as fetchSurveyResponses returns it
AnswerRow(email, qid, text, value, date) ==
  [email |-> email, question_id |-> qid, answer_text |-> text, answer_value |-> value,
   created_at |-> date]

StatsQuestion(id, type, options, text) ==
  [id |-> id, question_type |-> type, options |-> options, question_text |-> text]

\* SurveyStats after fetchData has returned while the table held these rows
StatsLoaded(questions, rows) ==
  [StatsInit EXCEPT !.pc = "loaded", !.questions = questions, !.responses = rows,
                    !.counted = rows]

\* SpecSummary: the overview of a survey of two questions, over every list of
\* rows of up to three respondents
SummaryQuestions ==
  << StatsQuestion("q1", "text", <<>>, <<"P">>), StatsQuestion("q2", "text", <<>>, <<"Q">>) >>

SummaryRows ==
  {AnswerRow(e, qid, <<"a">>, StrVal(<<"a">>), Date1) : e \in {E1, E2, E3}, qid \in {"q1", "q2"}}

InitSummary ==
  /\ InitOthers
  /\ \E rows \in SeqsUpTo(SummaryRows, MaxRows) :
       stats = StatsLoaded(SummaryQuestions, rows)

NextSummary == getResponseSummary

SpecSummary == InitSummary /\ [][NextSummary]_vars

\* SpecTally: the charts of a checkbox and a radio question over rows whose
\* values are lists, encoded lists, text that is no list, undeclared options
\* and property names of every object
OptionA == <<"A">>
OptionB == <<"B">>
Undeclared == <<"C">>

TallyQuestions ==
  << StatsQuestion("q1", "checkbox", <<OptionA, OptionB>>, <<"P">>),
     StatsQuestion("q2", "radio", <<OptionA, OptionB>>, <<"Q">>) >>

SelectionLists ==
  { <<>>, <<OptionA>>, <<OptionB, OptionA>>, <<Undeclared, OptionB>>,
    << <<"t", "o", "S", "t", "r", "i", "n", "g">> >> }

\* text that JSON.parse rejects
Unparsable == { <<"A", ",", " ", "B">>, <<"[", "\"", "A", "\"">> }

CheckboxRows ==
  {AnswerRow(E1, "q1", Join(l, <<",", " ">>), ArrVal(l), Date1) : l \in SelectionLists}
  \cup {AnswerRow(E1, "q1", Join(l, <<",", " ">>), StrVal(Stringify(l)), Date1) : l \in SelectionLists}
  \cup {AnswerRow(E1, "q1", u, StrVal(u), Date1) : u \in Unparsable}
  \cup {AnswerRow(E1, "q1", <<>>, StrVal(<<>>), Date1)}

RadioRows ==
  {AnswerRow(E2, "q2", t, StrVal(t), Date1) :
     t \in {<<>>, OptionA, OptionB, Undeclared, <<"v", "a", "l", "u", "e", "O", "f">>}}

InitTally ==
  /\ InitOthers
  /\ \E rows \in SeqsUpTo(CheckboxRows \cup RadioRows, MaxRows) :
       stats = StatsLoaded(TallyQuestions, rows)

NextTally == \E i \in 1..2 : ShowChart(i)

SpecTally == InitTally /\ [][NextTally]_vars

\* SpecNumbers: the panels of a number question and a text question over
\* rows whose text is a number, starts with one, or holds none
NumberQuestions ==
  << StatsQuestion("q1", "number", <<>>, <<"P">>), StatsQuestion("q2", "text", <<>>, <<"Q">>) >>

NumberTexts == { <<>>, <<"7">>, <<"1", "2">>, <<"-", "3">>, <<"x">>, <<"4", "a">> }

NumberRows ==
  {AnswerRow(E1, "q1", t, StrVal(t), Date1) : t \in NumberTexts}
  \cup {AnswerRow(E2, "q2", <<"a">>, StrVal(<<"a">>), Date1)}

InitNumbers ==
  /\ InitOthers
  /\ \E rows \in SeqsUpTo(NumberRows, MaxRows) :
       stats = StatsLoaded(NumberQuestions, rows)

NextNumbers == \E i \in 1..2 : ShowResponses(i)

SpecNumbers == InitNumbers /\ [][NextNumbers]_vars

\* SpecCsv: the download for a survey of two questions, over rows of two
\* respondents whose answers hold letters, commas and double quotes
CsvQuestions ==
  << StatsQuestion("q1", "text", <<>>, <<"P">>), StatsQuestion("q2", "text", <<>>, <<"Q">>) >>

CsvTexts == { <<"a">>, <<"a", ",", "b">>, <<"\"", "a">> }

CsvRows ==
  {AnswerRow(e, qid, t, StrVal(t), d) :
     e \in {E1, E2}, qid \in {"q1", "q2"}, t \in CsvTexts, d \in {Date1, Date2}}

InitCsv ==
  /\ InitOthers
  /\ \E rows \in SeqsUpTo(CsvRows, MaxRows) :
       stats = StatsLoaded(CsvQuestions, rows)

NextCsv == generateCSV

SpecCsv == InitCsv /\ [][NextCsv]_vars

\* SpecInline: a respondent at the one-line verification component, with
\* every return of the identity service
NextInline ==
  \/ \E e \in Emails \cup {BadEmail} : InlineSetEmail(e)
  \/ \E raw \in CodeInputs : InlineSetCode(raw)
  \/ InlineSendOTP
  \/ \E i \in 1..MaxInFlight : \E ok \in BOOLEAN : \E c \in Codes : InlineSendReturned(i, ok, c)
  \/ InlineTick
  \/ InlineVerifyOTP
  \/ \E i \in 1..MaxInFlight : InlineVerifyReturned(i)

SpecInline == Init /\ [][NextInline]_vars

\* SpecAnswers: one respondent who verifies without detours and then answers
\* with everything the inputs accept, on each of the surveys
TextInputs == {<<>>, <<" ">>, <<"a">>}

OtherQuestions ==
  << [id |-> "q1", question_type |-> "radio",    options |-> << <<"A">>, <<"B">> >>, required |-> TRUE],
     [id |-> "q2", question_type |-> "text",     options |-> <<>>,               required |-> FALSE],
     [id |-> "q3", question_type |-> "checkbox", options |-> << <<"A">>, <<"B">> >>, required |-> TRUE] >>

Surveys == {Questions, OtherQuestions}

InitAnswers ==
  /\ InitCommon
  /\ db = << EarlierBatch >>
  /\ survey \in Surveys
  /\ cooldown = ShortCooldown

NextAnswers ==
  \/ \E e \in Emails : setEmail(1, e)
  \/ setVerificationCode(1, Code1)
  \/ Continue(1)
  \/ Verify(1)
  \/ \E i \in 1..MaxInFlight : \E c \in Codes : SendSucceeded(1, i, c)
  \/ \E i \in 1..MaxInFlight : VerifyAccepted(1, i)
  \/ \E i \in 1..MaxInFlight : SignOutReturned(1, i, TRUE)
  \/ DuplicateGuard(1)
  \/ Answering(1, TextInputs)
  \/ InsertSucceeded(1)
  \/ InsertFailed(1)

SpecAnswers == InitAnswers /\ [][NextAnswers]_vars

\* SpecRace: two pages opened on the same survey, nobody has answered yet;
\* each respondent verifies without detours and gives one valid answer per
\* required question
InitRace ==
  /\ InitCommon
  /\ db = <<>>
  /\ survey = Questions
  /\ cooldown = ShortCooldown

RespondentWith(f, e) ==
  \/ setEmail(f, e)
  \/ setVerificationCode(f, Code1)
  \/ Continue(f)
  \/ Verify(f)
  \/ \E i \in 1..MaxInFlight : \E c \in Codes : SendSucceeded(f, i, c)
  \/ \E i \in 1..MaxInFlight : VerifyAccepted(f, i)
  \/ \E i \in 1..MaxInFlight : SignOutReturned(f, i, TRUE)
  \/ \E i \in DOMAIN checks[f] : CheckReturned(f, i)
  \/ handleTextAnswer(f, "q1", <<"a">>)
  \/ handleCheckboxAnswer(f, "q2", <<"A">>)
  \/ handleSubmit(f)
  \/ InsertSucceeded(f)

Respondent(f) == RespondentWith(f, E2)

NextRace == \E f \in AllForms : Respondent(f)

SpecRace == InitRace /\ [][NextRace]_vars

\* SpecLive: the published survey S has three questions and one answer set;
\* a respondent opens its page, verifies and answers while the owner edits
\* the survey, switches Publish and saves; the schema may cascade or not
LiveTables ==
  [TablesInit EXCEPT !.questions =
     [i \in DOMAIN Questions |->
        [id |-> Questions[i].id, survey_id |-> SurveyId, question_text |-> <<"t">>,
         question_type |-> Questions[i].question_type, options |-> Questions[i].options,
         required |-> Questions[i].required, order |-> i - 1]]]

InitLive ==
  /\ form = [f \in AllForms |-> FormInit]
  /\ hasSubmitted = [f \in AllForms |-> FALSE]
  /\ flow = [f \in AllForms |-> FlowInit]
  /\ gen = [f \in AllForms |-> 0]
  /\ sends = [f \in AllForms |-> <<>>]
  /\ verifies = [f \in AllForms |-> <<>>]
  /\ checks = [f \in AllForms |-> <<>>]
  /\ inserts = [f \in AllForms |-> {}]
  /\ session = [f \in AllForms |-> NoEmail]
  /\ issued = [e \in Emails |-> NoCode]
  /\ accepted = [f \in AllForms |-> {}]
  /\ checkLog = [f \in AllForms |-> [e \in Emails |-> "none"]]
  /\ leftAlready = [f \in AllForms |-> FALSE]
  /\ loaded = [f \in AllForms |-> "loading"]
  /\ db = << EarlierBatch >>
  /\ survey = <<>>
  /\ cooldown = ShortCooldown
  /\ poll = [v \in PollViews |-> PollInit]
  /\ confirmed = FALSE
  /\ editor = EditorInit
  /\ \E cascade \in BOOLEAN : tables = [LiveTables EXCEPT !.cascade = cascade]
  /\ op = OpInit
  /\ stats = StatsInit
  /\ inline = InlineInit

NextLive ==
  \/ \E ok \in BOOLEAN : PublishedSurveyFetched(1, ok)
  \/ setEmail(1, E2)
  \/ setVerificationCode(1, Code1)
  \/ Continue(1)
  \/ Verify(1)
  \/ \E i \in 1..MaxInFlight : \E c \in Codes : SendSucceeded(1, i, c)
  \/ \E i \in 1..MaxInFlight : VerifyAccepted(1, i)
  \/ \E i \in 1..MaxInFlight : SignOutReturned(1, i, TRUE)
  \/ \E i \in DOMAIN checks[1] : CheckReturned(1, i)
  \/ Len(survey) >= 1 /\ handleTextAnswer(1, survey[1].id, <<"a">>)
  \/ Len(survey) >= 2 /\ handleCheckboxAnswer(1, survey[2].id, <<"A">>)
  \/ handleSubmit(1)
  \/ InsertSucceeded(1)
  \/ InsertFailed(1)
  \/ OpenEditor(TRUE)
  \/ \E checked \in BOOLEAN : setIsPublished(checked)
  \/ SurveyFormSubmit
  \/ \E ok \in BOOLEAN : SaveReturned(ok)

SpecLive == InitLive /\ [][NextLive]_vars

\* the rows of one inserted set, in the order of the survey's questions
BatchRows(batch) ==
  LET ids == SelectSeq([i \in DOMAIN Questions |-> Questions[i].id],
                       LAMBDA q : \E r \in batch : r.question_id = q /\ r.survey_id = SurveyId)
  IN [k \in DOMAIN ids |->
        LET r == CHOOSE r \in batch : r.question_id = ids[k]
        IN AnswerRow(r.email, r.question_id, r.answer_text, r.answer_value, Date1)]

\* fetchSurveyResponses: the survey's answer rows, newest first
RECURSIVE fetchSurveyResponses(_)
fetchSurveyResponses(table) ==
  IF table = <<>> THEN <<>>
  ELSE BatchRows(table[Len(table)]) \o fetchSurveyResponses(SubSeq(table, 1, Len(table) - 1))

\* responseData of getSurveyStatistics: the survey's answer rows joined to
\* their question rows
getSurveyStatistics(table, questions) ==
  SelectSeq(fetchSurveyResponses(table), LAMBDA r : r.question_id \in Ids(questions))

\* fetchData of SurveyStats: fetchSurveyWithQuestions returned
SurveyFetched ==
  /\ stats.pc = "survey"
  /\ stats' = [stats EXCEPT !.pc = "responses",
                            !.questions = [i \in DOMAIN survey |->
                               StatsQuestion(survey[i].id, survey[i].question_type,
                                             survey[i].options, <<"Q">>)]]
  /\ UNCHANGED <<respondent, inline, polling, owner>>

\* fetchData: fetchSurveyResponses returned
ResponsesFetched ==
  /\ stats.pc = "responses"
  /\ stats' = [stats EXCEPT !.pc = "statistics", !.responses = fetchSurveyResponses(db)]
  /\ UNCHANGED <<respondent, inline, polling, owner>>

\* fetchData: getSurveyStatistics returned, and the finally block
StatisticsFetched ==
  /\ stats.pc = "statistics"
  /\ stats' = [stats EXCEPT !.pc = "loaded", !.counted = getSurveyStatistics(db, survey)]
  /\ UNCHANGED <<respondent, inline, polling, owner>>

\* fetchData: one of the three calls threw; the page shows the error
FetchDataFailed ==
  /\ stats.pc \in {"survey", "responses", "statistics"}
  /\ stats' = [stats EXCEPT !.pc = "failed"]
  /\ UNCHANGED <<respondent, inline, polling, owner>>

\* SpecFetch: the statistics page loads while two respondents with different
\* addresses answer the survey, which nobody has answered before
NextFetch ==
  \/ RespondentWith(1, E1)
  \/ RespondentWith(2, E2)
  \/ SurveyFetched
  \/ ResponsesFetched
  \/ StatisticsFetched
  \/ FetchDataFailed
  \/ getResponseSummary

SpecFetch == InitRace /\ [][NextFetch]_vars

\* SpecValidate: handleSubmit, and with it validateAnswers, on every question
\* list and answer map of the sets below, for a respondent verified as E2
MaxQuestions == 2

QuestionTypes == {"text", "checkbox"}

QuestionLists ==
  { qs \in UNION { [1..n -> [id : {"q1", "q2"}, question_type : QuestionTypes,
                             options : {<< <<"A">>, <<"B">> >>}, required : BOOLEAN]] :
                   n \in 1..MaxQuestions } :
      \A i, j \in DOMAIN qs : i # j => qs[i].id # qs[j].id }

AnswerInputs ==
  { NoAnswer,
    Answer(<<>>, StrVal(<<>>)),
    Answer(<<" ">>, StrVal(<<" ">>)),
    Answer(<<"a">>, StrVal(<<"a">>)),
    Answer(<<"\t", " ">>, ArrVal(<< <<"A">> >>)),
    Answer(<<"A">>, ArrVal(<< <<"A">> >>)),
    Answer(<<"A">>, ArrVal(<<>>)) }

InitValidate ==
  /\ InitRest
  /\ db = << EarlierBatch >>
  /\ survey \in QuestionLists
  /\ cooldown = ShortCooldown
  /\ \E a1, a2 \in AnswerInputs :
       form = [f \in AllForms |->
                 IF f = 1
                   THEN [FormInit EXCEPT !.verifiedEmail = E2,
                                         !.answers = [q \in QIds |->
                                            IF q = "q1" THEN a1
                                            ELSE IF q = "q2" THEN a2 ELSE NoAnswer]]
                   ELSE FormInit]

NextValidate ==
  \/ handleSubmit(1)
  \/ InsertSucceeded(1)
  \/ InsertFailed(1)

SpecValidate == InitValidate /\ [][NextValidate]_vars

\* ------------------------------------------------------------ properties
\* steps, told by what they change
\* handleSubmit reaches the insert call
InsertDispatched(f) == inserts[f] = {} /\ inserts'[f] # {}

\* the insert returned without error
InsertLanded(f) == inserts[f] # {} /\ ~hasSubmitted[f] /\ hasSubmitted'[f]

\* handleSendOTP reaches signInWithOtp
SendDispatched(f) == Len(sends'[f]) > Len(sends[f])

\* request i of signInWithOtp returned
SendReturned(f, i) == i \in DOMAIN sends[f] /\ sends'[f] = RemoveAt(sends[f], i)

\* call i of verifyOtp returned an error
VerifyErrored(f, i) ==
  /\ i \in DOMAIN verifies[f]
  /\ verifies[f][i].phase = "verifyOtp"
  /\ verifies'[f] = RemoveAt(verifies[f], i)

\* onVerificationSuccess is invoked: call i is through with signOut
CallbackInvoked(f, i) ==
  /\ i \in DOMAIN verifies[f]
  /\ verifies[f][i].phase = "signOut"
  /\ verifies'[f] = RemoveAt(verifies[f], i)

\* a text of nothing but white space
Blank(text) == \A k \in DOMAIN text : text[k] \in Whitespace

\* C1: an insert is only made while verifiedEmail is set, verifiedEmail is
\* only ever an address for which the identity service accepted a code in
\* this form instance, and every row of the insert carries that address
C1_InsertOnlyVerified ==
  [][\A f \in AllForms :
       /\ form'[f].verifiedEmail # NoEmail => form'[f].verifiedEmail \in accepted'[f]
       /\ InsertDispatched(f) =>
            /\ form[f].verifiedEmail # NoEmail
            /\ \A row \in inserts'[f] : row.email = form[f].verifiedEmail
       /\ InsertLanded(f) =>
            \A row \in db'[Len(db')] : row.email \in accepted[f]]_vars

\* C1 witness: the respondent's batch is in the table, beside the earlier one
C1_Witness ==
  /\ Len(db) = 2
  /\ hasSubmitted[1]
  /\ \A row \in db[2] : row.email = E2

\* C2 (as claimed): when the duplicate check for the verified address has
\* found an answer set in the table, handleSubmit does not reach the insert
C2_NoInsertAfterDuplicateFound ==
  [][\A f \in AllForms :
       InsertDispatched(f) => checkLog[f][form[f].verifiedEmail] # "dup"]_vars

\* C3: an insert that returns lands its batch whatever the table holds, so
\* two pages whose checks both came back clean both persist their set
C3_InsertLandsRegardless ==
  [][\A f \in AllForms : InsertLanded(f) => db' = Append(db, inserts[f])]_vars

\* C3 witness: two answer sets for E2 in the table, and on both pages the
\* check for E2 had found no row
C3_Witness ==
  /\ Len(db) = 2
  /\ \A k \in DOMAIN db : \A row \in db[k] : row.email = E2
  /\ checkLog[1][E2] = "clean"
  /\ checkLog[2][E2] = "clean"

\* C4: while an insert is in flight, its batch has for every required
\* question a row with a non-blank text, and for a required checkbox
\* question a row with at least one selected option
C4_RequiredAnswered ==
  \A f \in AllForms : inserts[f] # {} =>
    \A n \in DOMAIN survey : survey[n].required =>
      \E row \in inserts[f] :
        /\ row.question_id = survey[n].id
        /\ ~Blank(row.answer_text)
        /\ survey[n].question_type = "checkbox" =>
             row.answer_value.kind = "array" /\ Len(row.answer_value.v) > 0

\* C4 witness: an insert in flight that leaves the optional question out
C4_Witness ==
  /\ inserts[1] # {}
  /\ \E n \in DOMAIN survey :
       ~survey[n].required /\ \A row \in inserts[1] : row.question_id # survey[n].id

\* what a question must be, and its answer, to be flagged
Flagged(q, a) ==
  /\ q.required
  /\ \/ ~a.present
     \/ Blank(a.answer_text)
     \/ q.question_type = "checkbox"
          /\ ~(a.answer_value.kind = "array" /\ Len(a.answer_value.v) > 0)

\* C5: the errors handleSubmit gets from validateAnswers have an entry for q
\* exactly when q is a required question of the list and the map has no
\* answer for q, or the answer's text is blank, or q is a checkbox question
\* and the answer's value is not a non-empty list
C5_ValidateCharacterised ==
  [][inserts[1] = {} =>
       \A qid \in QIds :
         form'[1].validationErrors[qid] # NoMessage
           <=> \E n \in DOMAIN survey :
                 survey[n].id = qid /\ Flagged(survey[n], form[1].answers[qid])]_vars

\* C5 witness: a list with a required and an optional question, validated:
\* the required one is flagged for its blank text, the optional one is not
C5_Witness ==
  /\ Len(survey) = 2
  /\ survey[1].required /\ ~survey[2].required
  /\ form[1].answers[survey[1].id] = Answer(<<" ">>, StrVal(<<" ">>))
  /\ form[1].answers[survey[2].id] = Answer(<<>>, StrVal(<<>>))
  /\ form[1].validationErrors[survey[1].id] # NoMessage
  /\ form[1].validationErrors[survey[2].id] = NoMessage

\* C6: the step goes from 'email' to 'code' only when a signInWithOtp
\* request for a valid address returns without error, and handleSendOTP
\* sends a request only for the address in the input and only if it is valid
C6_CodeStepOnlyAfterValidSend ==
  [][\A f \in AllForms :
       /\ SendDispatched(f) =>
            /\ isValidEmail(flow[f].email)
            /\ sends'[f] = Append(sends[f], [gen |-> gen[f], email |-> flow[f].email])
       /\ flow[f].step = "email" /\ flow'[f].step = "code" =>
            \E i \in DOMAIN sends[f] :
              /\ SendReturned(f, i)
              /\ isValidEmail(sends[f][i].email)
              /\ issued'[sends[f][i].email] \in Codes]_vars

\* C6 witness: the code step, reached with a code issued for the address in
\* the input, after an invalid address had been turned away
C6_Witness ==
  /\ View(1) = "verify"
  /\ flow[1].step = "code"
  /\ flow[1].email \in Emails
  /\ issued[flow[1].email] \in Codes
  /\ sends[1] = <<>>

\* C7 (as claimed): whenever onVerificationSuccess is invoked, the client
\* holds no session
C7_NoSessionAtCallback ==
  [][\A f \in AllForms : \A i \in 1..MaxInFlight :
       CallbackInvoked(f, i) => session'[f] = NoEmail]_vars

\* C8: when verifyOtp returns an error, the success callback is not invoked,
\* and in the flow instance that made the call the step stays what it was,
\* an error message is set, the loading flag is cleared and the resend
\* button is left to the cooldown alone
C8_RejectionKeepsStep ==
  [][\A f \in AllForms : \A i \in 1..MaxInFlight :
       VerifyErrored(f, i) =>
         /\ form' = form
         /\ checks' = checks
         /\ View(f) = "verify" /\ verifies[f][i].gen = gen[f] =>
              /\ flow'[f].step = flow[f].step
              /\ flow'[f].error # NoMessage
              /\ ~flow'[f].isLoading
              /\ flow'[f].resendDisabled = flow[f].resendDisabled
              /\ flow'[f].countdown = flow[f].countdown
              /\ flow'[f].step = "code" /\ flow'[f].countdown = 0 =>
                   ~flow'[f].resendDisabled]_vars

\* C8 witness: the code step after a rejected code, cooldown over, so that
\* Resend Code is enabled
C8_Witness ==
  /\ View(1) = "verify"
  /\ flow[1].step = "code"
  /\ flow[1].error = "Token has expired or is invalid"
  /\ ~flow[1].isLoading
  /\ flow[1].countdown = 0
  /\ ResendEnabled(1)
  /\ form[1].verifiedEmail = NoEmail

\* C9 (as claimed): while the countdown is above 0 no signInWithOtp request
\* is dispatched
C9_NoRequestDuringCooldown ==
  [][\A f \in AllForms : SendDispatched(f) => flow[f].countdown = 0]_vars

\* C9 (amended): while the countdown is above 0 a signInWithOtp request is
\* dispatched only from the e-mail step, that is by Continue after Back,
\* never by Resend Code
C9_ResendBlockedDuringCooldown ==
  [][\A f \in AllForms :
       SendDispatched(f) /\ flow[f].countdown > 0 => flow[f].step = "email"]_vars

\* C9 witness: the code step with the cooldown running and nothing in flight
C9_Witness ==
  /\ View(1) = "verify"
  /\ flow[1].step = "code"
  /\ flow[1].countdown > 0
  /\ flow[1].countdown < ResendCooldown
  /\ flow[1].resendDisabled
  /\ sends[1] = <<>>

\* C10 (as claimed): "Use a different email address" clears verifiedEmail and
\* alreadySubmitted, and after it handleSubmit reaches the insert only when
\* an address is verified and the duplicate check for it has returned
C10_NoInsertBeforeNewCheck ==
  [][\A f \in AllForms :
       /\ ~leftAlready[f] /\ leftAlready'[f] =>
            form'[f].verifiedEmail = NoEmail /\ ~form'[f].alreadySubmitted
       /\ leftAlready[f] /\ InsertDispatched(f) =>
            /\ form[f].verifiedEmail # NoEmail
            /\ checkLog[f][form[f].verifiedEmail] # "none"]_vars

\* C11: while a polling view stays off the screen it starts no
\* refreshSession call and none of its state changes, and the instance that
\* has seen the confirmation starts no further call
C11_PollerStops ==
  [][\A v \in PollViews :
       LET p == poll[v]
           q == poll'[v]
       IN /\ ~p.mounted /\ ~q.mounted =>
               /\ q.started = p.started
               /\ q.isCheckingVerification = p.isCheckingVerification
               /\ q.active = p.active
               /\ ~q.interval
          /\ p.observed /\ q.instance = p.instance => q.started = p.started]_vars

\* C11 witness: a view that was left with a call in flight, whose return
\* then found nobody, and another that left because it saw the confirmation
C11_Witness ==
  /\ \A v \in PollViews : ~poll[v].mounted /\ poll[v].inFlight = <<>>
  /\ poll["VerifyEmail"].observed
  /\ poll["LandingPage"].started > 0
  /\ poll["LandingPage"].isCheckingVerification


\* an operation of several persistence calls ends in failure in this step
OperationFailed == op.kind # "none" /\ op'.kind = "none" /\ op'.outcome = "failed"

\* C12: when a call of a multi-call operation (survey save, old response
\* submission, dashboard delete) fails, the persisted rows after the
\* operation are the rows persisted before it began.
C12_NoPartialCommit ==
  [][OperationFailed => tables' = op.before]_vars

\* the order fields of a list of questions are 0..n-1 in list position
OrderIsPosition(questions) == \A i \in DOMAIN questions : questions[i].order = i - 1

\* C13: after any sequence of addQuestion and deleteQuestion, from an empty
\* form or a loaded survey, the order fields of the editor's questions are
\* 0..n-1 in list position, and the question rows a save has written carry
\* order = list index.
C13_OrderDense ==
  /\ OrderIsPosition(editor.questions)
  /\ op.kind \in {"save", "create"} /\ op.pc = "fetch" /\ Len(op.payload.questions) > 0 =>
       LET written == QuestionsOf(tables, IF op.kind = "save" THEN "S" ELSE "N")
       IN /\ Len(written) = Len(op.payload.questions)
          /\ OrderIsPosition(written)
          /\ \A i \in DOMAIN written :
               written[i].question_text = op.payload.questions[i].question_text

\* a save has written the one question left after two additions and at
\* least one deletion
C13_Witness ==
  /\ op.kind = "save" /\ op.pc = "fetch"
  /\ editor.clock = MaxAdds + 1
  /\ Len(op.payload.questions) = 1
  /\ Len(QuestionsOf(op.before, "S")) = 2

\* C14: for a checkbox question, after any sequence of checks and unchecks
\* handled by handleCheckboxAnswer, answer_value is the list of the selected
\* options (declared options, each once) and answer_text is that list joined
\* with ', '; the two fields agree in every reachable state of the answer map.
C14_CheckboxFieldsAgree ==
  \A f \in AllForms : \A i \in DOMAIN survey :
    LET a == form[f].answers[survey[i].id]
    IN survey[i].question_type = "checkbox" /\ a.present =>
         /\ a.answer_value.kind = "array"
         /\ \A k \in DOMAIN a.answer_value.v : Includes(survey[i].options, a.answer_value.v[k])
         /\ \A k, l \in DOMAIN a.answer_value.v : a.answer_value.v[k] = a.answer_value.v[l] => k = l
         /\ a.answer_text = Join(a.answer_value.v, <<",", " ">>)

\* B and then A are checked: the text reads "B, A"
C14_Witness ==
  \E i \in DOMAIN survey :
    LET a == form[1].answers[survey[i].id]
    IN /\ survey[i].question_type = "checkbox"
       /\ a.present
       /\ a.answer_value = ArrVal(<< <<"B">>, <<"A">> >>)
       /\ a.answer_text = <<"B", ",", " ", "A">>

\* C15: the response rate shown for a question is 100 times its answer rows
\* over the distinct respondent emails, rounded to the nearest integer, and
\* 0 when there is no respondent.
C15_ResponseRate ==
  stats.shown = "summary" =>
    /\ Len(stats.summary) = Len(stats.questions)
    /\ \A i \in DOMAIN stats.questions :
         LET rowCount == Cardinality({k \in DOMAIN stats.responses :
                                        stats.responses[k].question_id = stats.questions[i].id})
             respondents == Cardinality({stats.responses[k].email : k \in DOMAIN stats.responses})
             rate == stats.summary[i].responseRate
             off == 100 * rowCount - rate * respondents
         IN /\ rate \in Nat
            /\ respondents = 0 => rate = 0
            /\ respondents > 0 => 2 * off <= respondents /\ -2 * off <= respondents

\* three respondents, two of them answered the first question and one the
\* second: 67 and 33
C15_Witness ==
  /\ stats.shown = "summary"
  /\ Cardinality(uniqueEmails(stats.responses)) = 3
  /\ stats.summary[1].responseRate = 67
  /\ stats.summary[2].responseRate = 33

\* times x occurs in a list
Occurrences(list, x) == Cardinality({k \in DOMAIN list : list[k] = x})

\* the list a checkbox row stands for: the list itself, the list whose
\* encoded form the value is, or no selection at all
ListOf(row) ==
  IF row.answer_value.kind = "array" THEN row.answer_value.v
  ELSE IF \E l \in SelectionLists : Stringify(l) = row.answer_value.v
    THEN CHOOSE l \in SelectionLists : Stringify(l) = row.answer_value.v
    ELSE <<>>

RECURSIVE TimesSelected(_, _)
\* selections of an option over a list of checkbox rows
TimesSelected(rows, option) ==
  IF rows = <<>> THEN 0
  ELSE Occurrences(ListOf(Head(rows)), option) + TimesSelected(Tail(rows), option)

\* the chart shown has one numeric entry per declared option, in order
OneEntryPerOption(question) ==
  /\ Len(stats.chart) = Len(question.options)
  /\ \A k \in DOMAIN stats.chart :
       stats.chart[k].name = question.options[k] /\ ~stats.chart[k].isNaN

\* C16: the chart of a checkbox question has an entry for every declared
\* option and nothing else; a list and its encoded form count the same; a
\* value that is no list counts as no selection and stops nothing; a
\* selection that is no declared option is dropped.
C16_CheckboxTally ==
  stats.shown = "chart" /\ stats.questions[stats.subject].question_type = "checkbox" =>
    LET question == stats.questions[stats.subject]
        rows == questionResponses(stats.responses, question.id)
    IN /\ OneEntryPerOption(question)
       /\ \A k \in DOMAIN stats.chart :
            k <= Len(question.options) =>
              stats.chart[k].value = TimesSelected(rows, question.options[k])

\* C17: the chart of a radio question has exactly one entry per declared
\* option, each counting the question's rows whose answer_text is the option;
\* a row whose answer_text is no declared option changes no count.
C17_RadioTally ==
  stats.shown = "chart" /\ stats.questions[stats.subject].question_type = "radio" =>
    LET question == stats.questions[stats.subject]
        rows == questionResponses(stats.responses, question.id)
    IN /\ OneEntryPerOption(question)
       /\ \A k \in DOMAIN stats.chart :
            k <= Len(question.options) =>
              stats.chart[k].value =
                Cardinality({r \in DOMAIN rows : rows[r].answer_text = question.options[k]})

\* the numbers among the answers of the question shown
NumericAnswers ==
  LET rows == questionResponses(stats.responses, stats.questions[stats.subject].id)
      numeric == SelectSeq(rows, LAMBDA r : ~parseFloat(r.answer_text).isNaN)
  IN [k \in DOMAIN numeric |-> parseFloat(numeric[k].answer_text).n]

\* C18: for a number question the average, minimum and maximum are taken
\* over exactly the rows whose answer_text parses as a number, and when no
\* row does, no summary is displayed.
C18_NumericSummary ==
  stats.shown = "responses" /\ stats.questions[stats.subject].question_type = "number" =>
    IF NumericAnswers = <<>>
      THEN ~stats.numbers.displayed
      ELSE /\ stats.numbers.displayed
           /\ stats.numbers.min.kind = "finite" /\ stats.numbers.max.kind = "finite"
           /\ \A k \in DOMAIN NumericAnswers :
                stats.numbers.min.n <= NumericAnswers[k] /\ NumericAnswers[k] <= stats.numbers.max.n
           /\ \E k \in DOMAIN NumericAnswers : stats.numbers.min.n = NumericAnswers[k]
           /\ \E k \in DOMAIN NumericAnswers : stats.numbers.max.n = NumericAnswers[k]
           /\ LET off == 100 * Sum(NumericAnswers) - stats.numbers.average * Len(NumericAnswers)
              IN 2 * off <= Len(NumericAnswers) /\ -2 * off <= Len(NumericAnswers)

\* reading CSV text with the standard quoting rules: cells end at a comma,
\* rows at a line break; a cell that opens with a double quote runs to the
\* closing one, a doubled quote inside standing for one
RECURSIVE ReadCell(_, _, _, _)
\* the cell that starts at i: its text and the position of what ends it
ReadCell(text, i, quoted, cell) ==
  IF i > Len(text) THEN [cell |-> cell, end |-> i]
  ELSE IF quoted
    THEN IF text[i] = "\"" /\ i < Len(text) /\ text[i + 1] = "\""
           THEN ReadCell(text, i + 2, TRUE, Append(cell, "\""))
         ELSE IF text[i] = "\"" THEN ReadCell(text, i + 1, FALSE, cell)
         ELSE ReadCell(text, i + 1, TRUE, Append(cell, text[i]))
  ELSE IF text[i] \in {",", "\n"} THEN [cell |-> cell, end |-> i]
  ELSE ReadCell(text, i + 1, FALSE, Append(cell, text[i]))

RECURSIVE ReadCsv(_, _, _)
ReadCsv(text, i, row) ==
  LET opens == i <= Len(text) /\ text[i] = "\""
      read == ReadCell(text, IF opens THEN i + 1 ELSE i, opens, <<>>)
  IN IF read.end > Len(text) THEN << Append(row, read.cell) >>
     ELSE IF text[read.end] = "," THEN ReadCsv(text, read.end + 1, Append(row, read.cell))
     ELSE << Append(row, read.cell) >> \o ReadCsv(text, read.end + 1, <<>>)

\* the rows a reader of the downloaded text sees
DownloadedRows == ReadCsv(stats.csv, 1, <<>>)

\* the respondents of the loaded rows, in order of first appearance
Respondents == FirstEmails(stats.responses)

\* C19: the text generateCSV produces, read back with the standard quoting
\* rules, is one header row and one row per respondent, each of
\* 2 + |questions| cells, and gives back every respondent, date and answer.
C19_CsvRoundTrip ==
  stats.shown = "csv" =>
    /\ Len(DownloadedRows) = 1 + Len(Respondents)
    /\ \A k \in DOMAIN DownloadedRows : Len(DownloadedRows[k]) = 2 + Len(stats.questions)
    /\ DownloadedRows[1] = CsvHeaders(stats.questions)
    /\ \A k \in DOMAIN Respondents :
         LET entry == RespondentEntry(stats.responses, Respondents[k])
             cells == DownloadedRows[k + 1]
         IN /\ cells[1] = entry.email
            /\ cells[2] = entry.date
            /\ \A i \in DOMAIN stats.questions :
                 stats.questions[i].id \in DOMAIN entry.answers =>
                   cells[2 + i] = entry.answers[stats.questions[i].id]

\* C20: the download has one data row per distinct respondent email; in each
\* row the cell of question i holds the respondent's answer_text for it, and
\* an empty cell stands where the respondent gave no answer.
C20_CsvCells ==
  stats.shown = "csv" =>
    /\ Len(DownloadedRows) = 1 + Cardinality(uniqueEmails(stats.responses))
    /\ \A k \in DOMAIN Respondents :
         \A i \in DOMAIN stats.questions :
           LET given == {r \in DOMAIN stats.responses :
                           /\ stats.responses[r].email = Respondents[k]
                           /\ stats.responses[r].question_id = stats.questions[i].id}
               cells == DownloadedRows[k + 1]
           IN /\ 2 + i \in DOMAIN cells
              /\ given = {} => cells[2 + i] = <<>>
              /\ given # {} => \E r \in given : cells[2 + i] = stats.responses[r].answer_text

\* a token of exactly six decimal digits
SixDigits(token) == Len(token) = OtpLength /\ \A k \in DOMAIN token : token[k] \in Digits

\* C21: the respondent verification components (EmailVerificationFlow and
\* EmailVerification) call verifyOtp only with a token of exactly 6 decimal
\* digits; a shorter or empty code sends no request.
C21_OnlySixDigitsVerified ==
  [][/\ \A f \in AllForms :
          Len(verifies'[f]) > Len(verifies[f]) => SixDigits(verifies'[f][Len(verifies'[f])].token)
     /\ Len(inline'.verifies) > Len(inline.verifies) =>
          SixDigits(inline'.verifies[Len(inline'.verifies)].token)]_vars

\* a refreshSession call of the view returns in this step
RefreshReturns(v) ==
  \/ Len(poll'[v].inFlight) < Len(poll[v].inFlight)
  \/ Len(poll'[v].inFlight) = Len(poll[v].inFlight) /\ poll'[v].started > poll[v].started

\* C22: apart from the immediate check when polling starts, every
\* refreshSession check is started by a tick of the 5-second interval: no
\* check starts in the step in which the previous one returns.
C22_ChecksStartOnTicks ==
  [][\A v \in PollViews :
       poll'[v].started > poll[v].started => ~RefreshReturns(v)]_vars

\* an edit-save ends successfully in this step
SaveSucceeded == op.kind = "save" /\ op'.kind = "none" /\ op'.outcome = "done"

\* C23: after a successful edit-save the persisted question rows of the
\* survey are exactly the editor's question list, in order, for every list
\* the editor can hold, the empty list included.
C23_SavedRowsAreEditorList ==
  [][SaveSucceeded =>
       LET written == QuestionsOf(tables', "S")
       IN /\ Len(written) = Len(op.payload.questions)
          /\ \A i \in DOMAIN written :
               /\ written[i].question_text = op.payload.questions[i].question_text
               /\ written[i].order = i - 1]_vars

\* the insert returned an error in this step
InsertErrored(f) == inserts[f] # {} /\ inserts'[f] = {} /\ db' = db

\* C24: a failed insert is not retried: in the step in which the call fails
\* no insert starts, onSubmitSuccess is not invoked, the answer map and the
\* verified email stay as they are and isSubmitting is false again; an insert
\* starts only from a submit the respondent can trigger, with none in flight.
C24_FailedInsertNotRetried ==
  [][\A f \in AllForms :
       /\ InsertErrored(f) =>
            /\ hasSubmitted'[f] = hasSubmitted[f]
            /\ form'[f].answers = form[f].answers
            /\ form'[f].verifiedEmail = form[f].verifiedEmail
            /\ ~form'[f].isSubmitting
       /\ inserts'[f] # {} /\ inserts'[f] # inserts[f] =>
            /\ inserts[f] = {}
            /\ View(f) = "form"
            /\ SubmitEnabled(form[f])]_vars

\* after a failed insert the respondent has submitted again
C24_Witness ==
  /\ form[1].toast = "Submission Error"
  /\ form[1].isSubmitting
  /\ inserts[1] # {}

\* the flow of form 1 is mounted before and after the step
StaysMounted == View(1) = "verify" /\ View(1)' = "verify" /\ gen'[1] = gen[1]

\* a signInWithOtp request of the mounted flow instance returned without error
CodeRequestSucceeded ==
  /\ StaysMounted
  /\ \E i \in DOMAIN sends[1] : \E c \in Codes :
       sends[1][i].gen = gen[1] /\ SendSucceeded(1, i, c)

\* what C25 says of single steps and states: a successful request leaves the
\* countdown at 60 with resend disabled, every other change of the countdown
\* takes one off, and resend is disabled exactly while the countdown is above 0
CooldownSteps ==
  /\ [][/\ CodeRequestSucceeded =>
             flow'[1].countdown = ResendCooldown /\ ~ResendEnabled(1)'
        /\ StaysMounted /\ flow'[1].countdown # flow[1].countdown =>
             \/ CodeRequestSucceeded
             \/ flow'[1].countdown = flow[1].countdown - 1]_vars
  /\ [](View(1) = "verify" /\ flow[1].step = "code" =>
          (ResendEnabled(1) <=> flow[1].countdown = 0))

\* C25 (as claimed): after a successful code request the countdown is 60 and
\* resend is disabled, it goes down by one per timer, and while the flow
\* stays mounted it eventually reaches 0, where resend is enabled
C25_CooldownReachesZero ==
  /\ CooldownSteps
  /\ (View(1) = "verify" /\ flow[1].countdown > 0)
       ~> (View(1) # "verify" \/ flow[1].countdown = 0)

\* C25 (amended): the same, except that the countdown reaches 0 only if code
\* requests do not keep succeeding: each successful request, also one made
\* with Back and Continue while the countdown runs, starts it again at 60
C25_CooldownReachesZeroUnlessRestarted ==
  /\ CooldownSteps
  /\ \/ []<><<CodeRequestSucceeded>>_vars
     \/ []<>(View(1) # "verify" \/ flow[1].countdown = 0)

\* C25 witness: the code step with the countdown run out and resend enabled,
\* a code request in flight, and a code accepted by verifyOtp
C25_Witness ==
  /\ View(1) = "verify"
  /\ flow[1].step = "code"
  /\ flow[1].countdown = 0
  /\ ResendEnabled(1)
  /\ sends[1] # <<>>
  /\ \E i \in DOMAIN verifies[1] : verifies[1][i].phase = "signOut"

\* C26: no response rate of the overview is above 100, whatever was
\* submitted before or between the page's fetches.
C26_RateAtMost100 ==
  stats.shown = "summary" =>
    \A i \in DOMAIN stats.summary : stats.summary[i].responseRate <= 100

\* C27: handleSubmit reaches the insert for the verified address only when
\* the duplicate check for that address has returned, and returned that the
\* table holds no row for it; not after a check that threw, not while the
\* check is in flight.
C27_InsertOnlyAfterCleanCheck ==
  [][\A f \in AllForms :
       InsertDispatched(f) => checkLog[f][form[f].verifiedEmail] = "clean"]_vars

\* C28: a mounted response form has at most one successful insert: while
\* its insert is in flight Submit Response is disabled and no other insert
\* starts, a successful insert is the page's first and switches it to the
\* completion view, and from that view no insert starts any more.
C28_OneSuccessfulInsert ==
  [][/\ \A f \in AllForms :
          /\ inserts[f] # {} =>
               /\ ~SubmitEnabled(form[f])
               /\ inserts'[f] \in {inserts[f], {}}
          /\ hasSubmitted[f] => hasSubmitted'[f] /\ inserts'[f] = {}
     /\ db' # db =>
          \E f \in AllForms :
            /\ inserts[f] # {}
            /\ db' = Append(db, inserts[f])
            /\ ~hasSubmitted[f]
            /\ View(f)' = "thanks"]_vars

\* C28 witness: the first insert failed, the respondent submitted again, the
\* second insert succeeded and the completion view is shown
C28_Witness ==
  /\ View(1) = "thanks"
  /\ form[1].toast = "Submission Error"
  /\ Len(db) = 2
  /\ inserts[1] = {}

\* the surveys row of S says published
Published(t) == \E row \in t.surveys : row.id = SurveyId /\ row.is_published

\* C29: the page presents the survey only if S is published when its fetch
\* returns, and an answer set is inserted only while S is published.
C29_AnswersOnlyWhenPublished ==
  [][/\ \A f \in AllForms :
          loaded[f] = "loading" /\ loaded'[f] = "ready" => Published(tables)
     /\ Len(db') > Len(db) => Published(tables)]_vars

\* C30: no call of a save removes an answer row, and when a save has
\* succeeded every answer row that named a question of S when the save began
\* names a question row S has now.
C30_AnswersKeepTheirQuestion ==
  [][/\ op.kind = "save" =>
          /\ Len(db') >= Len(db)
          /\ \A k \in DOMAIN db : db[k] \subseteq db'[k]
     /\ SaveSucceeded =>
          \A k \in DOMAIN db : \A row \in db[k] :
            row.question_id \in Ids(QuestionsOf(op.before, SurveyId)) =>
              row.question_id \in Ids(QuestionsOf(tables', SurveyId))]_vars

====
